---- MODULE Spec2Model ----
(***************************************************************************)
(* Snippet catalog of snippet-dashboard: the snippets table with its       *)
(* UNIQUE constraints, the create / update / remove handlers of            *)
(* services/snippet.service.js, the public facet queries (count + page)    *)
(* and the user approval flag they join on.                                *)
(*                                                                         *)
(* Text values are sequences of one-character strings, so that slugify,    *)
(* the decimal rendering of Date.now() and SQLite's LIKE are computed      *)
(* character by character.                                                 *)
(***************************************************************************)
EXTENDS Integers, Sequences, FiniteSets, TLC

VARIABLES snippets, users, nextId, now, reqs, resp, lastQuery,
          categories, languages, sqlite_sequence, sessions

\* The tables of the taxonomy and their AUTOINCREMENT counters.
taxonomy == <<categories, languages, sqlite_sequence>>

vars ==
  <<snippets, users, nextId, now, reqs, resp, lastQuery, taxonomy, sessions>>

(***************************************************************************)
(* Bounds of the model.                                                    *)
(***************************************************************************)
\* Largest row id the AUTOINCREMENT counter hands out.
MaxId == 3
\* Milliseconds the clock may advance inside one second.
MaxMs == 1
\* Seconds the clock may advance.
MaxSec == 1
\* Largest page number requested.
MaxPage == 3

(***************************************************************************)
(* Text.                                                                   *)
(***************************************************************************)
\* SQL NULL / JS undefined for a text column.
NullText == <<"NULL">>
\* SQL NULL for an integer foreign key (category_id || null).
NullId == 0
\* Milliseconds per second: Date.now() is in ms, CURRENT_TIMESTAMP in s.
MsPerSec == 1000

Upper == {"A", "B"}
Lower(c) == IF c = "A" THEN "a" ELSE IF c = "B" THEN "b" ELSE c
LowerChars == {"a", "b", "k"}
DigitChars == {"0", "1", "2", "3", "4", "5", "6", "7", "8", "9"}
\* \w of a JavaScript regular expression (after lower-casing).
WordChars == LowerChars \cup Upper \cup DigitChars \cup {"_"}
\* \s of a JavaScript regular expression.
SpaceChars == {" "}

RECURSIVE ToLower(_)
ToLower(s) == IF s = <<>> THEN <<>> ELSE <<Lower(Head(s))>> \o ToLower(Tail(s))

RECURSIVE TrimLeft(_)
TrimLeft(s) ==
  IF s # <<>> /\ Head(s) \in SpaceChars THEN TrimLeft(Tail(s)) ELSE s

RECURSIVE TrimRight(_)
TrimRight(s) ==
  IF s # <<>> /\ s[Len(s)] \in SpaceChars
    THEN TrimRight(SubSeq(s, 1, Len(s) - 1))
    ELSE s

\* String.prototype.trim
Trim(s) == TrimRight(TrimLeft(s))

\* .replace(/\s+/g, "-"): every maximal run of whitespace becomes one hyphen.
RECURSIVE SpacesToHyphen(_)
SpacesToHyphen(s) ==
  IF s = <<>> THEN <<>>
  ELSE IF Head(s) \in SpaceChars
    THEN <<"-">> \o SpacesToHyphen(TrimLeft(s))
    ELSE <<Head(s)>> \o SpacesToHyphen(Tail(s))

\* .replace(/[^\w\-]+/g, ""): drop everything that is not a word char or hyphen.
RECURSIVE StripNonWord(_)
StripNonWord(s) ==
  IF s = <<>> THEN <<>>
  ELSE IF Head(s) \in WordChars \cup {"-"}
    THEN <<Head(s)>> \o StripNonWord(Tail(s))
    ELSE StripNonWord(Tail(s))

\* .replace(/\-\-+/g, "-"): every run of two or more hyphens becomes one.
RECURSIVE CollapseHyphens(_)
CollapseHyphens(s) ==
  IF s = <<>> THEN <<>>
  ELSE IF Len(s) >= 2 /\ s[1] = "-" /\ s[2] = "-"
    THEN CollapseHyphens(Tail(s))
    ELSE <<Head(s)>> \o CollapseHyphens(Tail(s))

\* slugify(text = ""): an undefined title is slugified as the empty string.
slugify(text) ==
  LET t == IF text = NullText THEN <<>> ELSE text
  IN CollapseHyphens(StripNonWord(SpacesToHyphen(Trim(ToLower(t)))))

DigitChar(d) ==
  CASE d = 0 -> "0" [] d = 1 -> "1" [] d = 2 -> "2" [] d = 3 -> "3"
    [] d = 4 -> "4" [] d = 5 -> "5" [] d = 6 -> "6" [] d = 7 -> "7"
    [] d = 8 -> "8" [] d = 9 -> "9"

\* Decimal rendering of a non-negative integer inside a template literal.
RECURSIVE Digits(_)
Digits(n) ==
  IF n < 10 THEN <<DigitChar(n)>>
  ELSE Digits(n \div 10) \o <<DigitChar(n % 10)>>

\* `${slug}-${Date.now()}`
Suffixed(slug, t) == slug \o <<"-">> \o Digits(t)

\* SQLite LIKE: % matches any run, _ any one character, ASCII letters
\* compare case-insensitively.  A NULL operand never matches.
RECURSIVE LikeFrom(_, _)
LikeFrom(p, s) ==
  IF p = <<>> THEN s = <<>>
  ELSE IF Head(p) = "%"
    THEN LikeFrom(Tail(p), s) \/ (s # <<>> /\ LikeFrom(p, Tail(s)))
    ELSE /\ s # <<>>
         /\ (Head(p) = "_" \/ Lower(Head(p)) = Lower(Head(s)))
         /\ LikeFrom(Tail(p), Tail(s))

Like(text, pattern) ==
  /\ text # NullText
  /\ pattern # NullText
  /\ LikeFrom(pattern, text)

\* LIKE with the bare term as its pattern.
ContainsWhole(text, term) == Like(text, term)

\* `%${term}%`
Contains(text, term) == Like(text, <<"%">> \o term \o <<"%">>)

(***************************************************************************)
(* Tables.                                                                 *)
(***************************************************************************)
UserIds == {1, 2, 3}

\* The hexadecimal string authService.generateApiKey() returns, numbered.
ApiKey(i) == <<"e">> \o Digits(i)

\* users rows as left by seedAdminUser (1) and createByAdmin (2, 3).
InitUsers ==
  [u \in UserIds |->
     [username |-> IF u = 1 THEN <<"r">>
                   ELSE IF u = 2 THEN <<"a">> ELSE <<"b">>,
      is_admin |-> IF u = 1 THEN 1 ELSE 0,
      is_approved |-> 1,
      api_key |-> ApiKey(u)]]

\* req.session.user / req.user: the acting identity handed to the service.
Actor(u) == [id |-> u, is_admin |-> users[u].is_admin = 1]

\* The token uid.rnd() returns, numbered: alphanumeric, here one without
\* uppercase letters, which a slug can equal.
ShortId(i) == <<"k">> \o Digits(i)

UsedShortIds(S) == {S[i].short_id : i \in DOMAIN S}

\* uid.rnd(): any token.  Tokens not in the table are interchangeable, so the
\* draw is one already stored (a collision) or the first one that is not.
ShortIdDraws(S) ==
  LET fresh == CHOOSE i \in 1..(Cardinality(DOMAIN S) + 1) :
                 /\ ShortId(i) \notin UsedShortIds(S)
                 /\ \A j \in 1..(i - 1) : ShortId(j) \in UsedShortIds(S)
  IN UsedShortIds(S) \cup {ShortId(fresh)}

\* category_id || null, language_id || null
OrNull(v) == IF v = NullId THEN NullId ELSE v

\* SELECT * FROM snippets WHERE id = ?
findById(S, id) == {S[i] : i \in {j \in DOMAIN S : j = id}}

\* SELECT id FROM snippets WHERE slug = ?
SlugExists(S, slug) == \E i \in DOMAIN S : S[i].slug = slug

\* SELECT id FROM snippets WHERE slug = ? AND id != ?
ConflictingSnippet(S, slug, id) ==
  \E i \in DOMAIN S : S[i].slug = slug /\ i # id

\* create without its timestamp suffix.
CreateSlugNoSuffix(title, slugExists, t) == slugify(title)

\* create: the slug stored for a new snippet, given what the SELECT of the
\* slug returned (slugExists) and Date.now() when it returned.
CreateSlug(title, slugExists, t) ==
  LET slug == slugify(title)
  IN IF slugExists THEN Suffixed(slug, t) ELSE slug

\* update regenerating the slug whether or not the title changed.
UpdateSlugAlways(currentSnippet, title, conflictingSnippet, t) ==
  LET newSlugCandidate == slugify(title)
  IN IF conflictingSnippet
       THEN Suffixed(newSlugCandidate, t)
       ELSE newSlugCandidate

\* update: the slug written by an update, given the row findById returned
\* (currentSnippet) and, when the title differs, what the SELECT of the
\* candidate slug returned (conflictingSnippet) and Date.now() then.
UpdateSlug(currentSnippet, title, conflictingSnippet, t) ==
  IF title # currentSnippet.title
    THEN LET newSlugCandidate == slugify(title)
         IN IF conflictingSnippet
              THEN Suffixed(newSlugCandidate, t)
              ELSE newSlugCandidate
    ELSE currentSnippet.slug

\* The row an INSERT of create builds.
NewRow(id, f, slug, shortId, u, t) ==
  [id |-> id, title |-> f.title, slug |-> slug, short_id |-> shortId,
   description |-> f.description, code |-> f.code, tags |-> f.tags,
   reference_url |-> f.reference_url,
   category_id |-> OrNull(f.category_id),
   language_id |-> OrNull(f.language_id),
   user_id |-> u, is_private |-> f.is_private,
   created_at |-> t \div MsPerSec]

\* An UPDATE that also assigns short_id.
UpdatedRowNewShortId(row, f, slug) ==
  [row EXCEPT !.title = f.title, !.description = f.description,
              !.code = f.code, !.tags = f.tags,
              !.category_id = OrNull(f.category_id),
              !.reference_url = f.reference_url,
              !.language_id = OrNull(f.language_id),
              !.slug = slug, !.is_private = f.is_private,
              !.short_id = ShortId(0)]

\* The columns an UPDATE of update assigns.
UpdatedRow(row, f, slug) ==
  [row EXCEPT !.title = f.title, !.description = f.description,
              !.code = f.code, !.tags = f.tags,
              !.category_id = OrNull(f.category_id),
              !.reference_url = f.reference_url,
              !.language_id = OrNull(f.language_id),
              !.slug = slug, !.is_private = f.is_private]

\* title TEXT NOT NULL, slug TEXT NOT NULL, code TEXT NOT NULL
NotNullOk(row) ==
  row.title # NullText /\ row.slug # NullText /\ row.code # NullText

\* A table without its UNIQUE constraints.
UniqueOkNoConstraint(S, row) == TRUE

\* slug TEXT NOT NULL UNIQUE, short_id TEXT UNIQUE: no other row holds them.
UniqueOk(S, row) ==
  \A i \in DOMAIN S \ {row.id} :
    S[i].slug # row.slug /\ S[i].short_id # row.short_id

NoError == "none"
ConstraintError == "SQLITE_CONSTRAINT"
NotFoundError == "Snippet not found for update."

Result(S, err, changes) == [table |-> S, err |-> err, changes |-> changes]

\* query.run of the INSERT: the row is stored or the statement is rejected.
\* INSERT OR IGNORE: a row that breaks a constraint is dropped without error.
InsertRowOrIgnore(S, row) ==
  IF NotNullOk(row) /\ UniqueOk(S, row)
    THEN Result([i \in DOMAIN S \cup {row.id} |->
                   IF i = row.id THEN row ELSE S[i]], NoError, 1)
    ELSE Result(S, NoError, 0)

InsertRow(S, row) ==
  IF NotNullOk(row) /\ UniqueOk(S, row)
    THEN Result([i \in DOMAIN S \cup {row.id} |->
                   IF i = row.id THEN row ELSE S[i]], NoError, 1)
    ELSE Result(S, ConstraintError, 0)

\* The statement without AND user_id = ?.
GuardedById(S, id, user) == {i \in DOMAIN S : i = id}

\* The statement with AND user_id = ? for every caller, admins included.
GuardedByOwner(S, id, user) ==
  {i \in DOMAIN S : i = id /\ S[i].user_id = user.id}

\* WHERE id = ? [AND user_id = ?]: the rows a mutation by `user` selects.
Guarded(S, id, user) ==
  {i \in DOMAIN S : i = id /\ (user.is_admin \/ S[i].user_id = user.id)}

\* query.run of the UPDATE.
UpdateRow(S, id, user, f, slug) ==
  LET hit == Guarded(S, id, user)
      new == [i \in DOMAIN S |->
                IF i \in hit THEN UpdatedRow(S[i], f, slug) ELSE S[i]]
  IN IF hit = {} THEN Result(S, NoError, 0)
     ELSE IF \A i \in hit : NotNullOk(new[i]) /\ UniqueOk(S, new[i])
       THEN Result(new, NoError, Cardinality(hit))
       ELSE Result(S, ConstraintError, 0)

\* A DELETE that is rejected when it selects no row.
DeleteRowOrThrow(S, id, user) ==
  LET hit == Guarded(S, id, user)
  IN IF hit = {} THEN Result(S, NotFoundError, 0)
     ELSE Result([i \in DOMAIN S \ hit |-> S[i]], NoError, Cardinality(hit))

\* query.run of the DELETE.
DeleteRow(S, id, user) ==
  LET hit == Guarded(S, id, user)
  IN Result([i \in DOMAIN S \ hit |-> S[i]], NoError, Cardinality(hit))

(***************************************************************************)
(* Handlers, each run to completion (one request at a time).               *)
(***************************************************************************)
\* The row findById handed to update, reduced to the columns update reads.
NoRow == [title |-> NullText, slug |-> NullText]
Seen(row) == [title |-> row.title, slug |-> row.slug]

\* The outcome of the last service call: what it was called with (op, id,
\* title), the row update read first (cur), the slug it computed, and what
\* query.run returned to the caller (the rejection, or { changes }).
Response(op, id, title, cur, slug, r) ==
  [op |-> op, id |-> id, title |-> title, cur |-> cur, slug |-> slug,
   err |-> r.err, changes |-> r.changes]

NoResponse ==
  [op |-> "none", id |-> NullId, title |-> NullText, cur |-> NoRow,
   slug |-> NullText, err |-> NoError, changes |-> 0]

\* Requests in flight at once.
Slots == {1, 2}

\* The slugs of language-map.js, in the order of its keys.
languageExtensionMap == << <<"a">>, <<"b">> >>

\* String.prototype.toUpperCase of one character.
ToUpperChar(c) ==
  IF \E u \in Upper : Lower(u) = c
    THEN CHOOSE u \in Upper : Lower(u) = c
    ELSE c

\* seedLanguages on an empty table: one row per slug of the map, named by
\* the slug with its first character in upper case.
SeededLanguages ==
  [k \in 1..Len(languageExtensionMap) |->
     LET slug == languageExtensionMap[k]
     IN [id |-> k, name |-> <<ToUpperChar(Head(slug))>> \o Tail(slug),
         slug |-> slug]]

Idle == [pc |-> "idle"]

NoQuery == [facet |-> "none"]

Init ==
  /\ snippets = <<>>
  /\ users = InitUsers
  /\ nextId = 1
  /\ now = 0
  /\ reqs = [r \in Slots |-> Idle]
  /\ resp = NoResponse
  /\ lastQuery = NoQuery
  /\ categories = <<>>
  /\ sessions = {}
  /\ languages = SeededLanguages
  /\ sqlite_sequence = [categories |-> 0, languages |-> Len(SeededLanguages)]

\* snippetService.create(snippetData) for the session or API user u.
Create(u, f, shortId) ==
  /\ nextId <= MaxId
  /\ LET slugExists == SlugExists(snippets, slugify(f.title))
         slug == CreateSlug(f.title, slugExists, now)
         r == InsertRow(snippets, NewRow(nextId, f, slug, shortId, u, now))
     IN /\ snippets' = r.table
        /\ nextId' = IF r.err = NoError THEN nextId + 1 ELSE nextId
        /\ resp' = Response("create", nextId, f.title, NoRow, slug, r)
  /\ UNCHANGED <<users, now, reqs, lastQuery, taxonomy, sessions>>

\* snippetService.update(id, user, snippetData)
Update(id, u, f) ==
  /\ LET found == findById(snippets, id)
     IN IF found = {}
          THEN /\ resp' = Response("update", id, f.title, NoRow, NullText,
                                   Result(snippets, NotFoundError, 0))
               /\ snippets' = snippets
          ELSE LET cur == CHOOSE row \in found : TRUE
                   conflictingSnippet ==
                     ConflictingSnippet(snippets, slugify(f.title), id)
                   finalSlug ==
                     UpdateSlug(cur, f.title, conflictingSnippet, now)
                   r == UpdateRow(snippets, id, Actor(u), f, finalSlug)
               IN /\ snippets' = r.table
                  /\ resp' = Response("update", id, f.title, Seen(cur),
                                      finalSlug, r)
  /\ UNCHANGED <<users, nextId, now, reqs, lastQuery, taxonomy, sessions>>

\* snippetService.remove(id, user)
Remove(id, u) ==
  /\ LET r == DeleteRow(snippets, id, Actor(u))
     IN /\ snippets' = r.table
        /\ resp' = Response("remove", id, NullText, NoRow, NullText, r)
  /\ UNCHANGED <<users, nextId, now, reqs, lastQuery, taxonomy, sessions>>

\* Date.now() advances by a millisecond inside the current second.
TickMs ==
  /\ now % MsPerSec < MaxMs
  /\ now' = now + 1
  /\ UNCHANGED <<snippets, users, nextId, reqs, resp, lastQuery,
               taxonomy, sessions>>

\* The clock reaches the next second (CURRENT_TIMESTAMP changes).
TickSec ==
  /\ now \div MsPerSec < MaxSec
  /\ now' = (now \div MsPerSec + 1) * MsPerSec
  /\ UNCHANGED <<snippets, users, nextId, reqs, resp, lastQuery,
               taxonomy, sessions>>

\* Request bodies of the dashboard form and the API used for mutations.
FormA ==
  [title |-> <<"A", " ", "b">>, description |-> <<"a", "b">>,
   code |-> <<"a">>, tags |-> <<"a", ",", "b">>, category_id |-> 1,
   reference_url |-> NullText, language_id |-> 1, is_private |-> 0]

\* Another title with the same slug, every other field different.
FormB ==
  [title |-> <<"a", " ", " ", "b", "!">>, description |-> NullText,
   code |-> <<"b">>, tags |-> NullText, category_id |-> NullId,
   reference_url |-> <<"a">>, language_id |-> NullId, is_private |-> 1]

\* A title whose own slug is what a timestamp suffix produces at time 0.
FormC ==
  [title |-> <<"a", "-", "b", "-", "0">>, description |-> <<"a", "b">>,
   code |-> <<"a">>, tags |-> <<"a", ",", "b">>, category_id |-> 1,
   reference_url |-> NullText, language_id |-> 1, is_private |-> 0]

\* The title of FormA with the other fields of FormB.
FormA2 == [FormB EXCEPT !.title = FormA.title]

Ids == 1..MaxId

\* The create calls of the sessions of `authors` with bodies `forms`.
Creates(authors, forms) ==
  \E u \in authors, f \in forms :
    \E k \in ShortIdDraws(snippets) : Create(u, f, k)

\* The update calls of the sessions of `actors` with bodies `forms`.
Updates(actors, forms) ==
  \E id \in Ids, u \in actors, f \in forms : Update(id, u, f)

\* The remove calls of the sessions of `actors`.
Removes(actors) == \E id \in Ids, u \in actors : Remove(id, u)

\* Ownership: the snippets of one author, every user acting on them, all
\* within one millisecond.
Authors == {2}
AuthForms == {FormA, FormB, FormC}
NextAuth ==
  \/ Creates(Authors, AuthForms)
  \/ Updates(UserIds, AuthForms)
  \/ Removes(UserIds)
SpecAuth == Init /\ [][NextAuth]_vars

\* Identity: one author's snippets edited by every user and removed by the
\* admin as the seconds pass.
IdentForms == {FormA, FormB}
NextIdent ==
  \/ Creates(Authors, {FormA})
  \/ Updates(UserIds, IdentForms)
  \/ Removes({1})
  \/ TickSec
SpecIdent == Init /\ [][NextIdent]_vars

\* Slug allocation: one author creating and editing as time passes.
SlugForms == {FormA, FormA2, FormC}
NextSlug ==
  \/ Creates(Authors, SlugForms)
  \/ Updates(Authors, SlugForms)
  \/ TickMs
SpecSlug == Init /\ [][NextSlug]_vars

(***************************************************************************)
(* Handlers interleaved: a request gives way to the others at each await.  *)
(***************************************************************************)
\* Most snippets created while requests interleave.
MaxRaced == 2

\* Creates that have run their SELECT and not yet their INSERT.
PendingCreates == {s \in Slots : reqs[s].pc = "create_insert"}

\* create up to its await: uid.rnd() is drawn and the SELECT of the slug has
\* returned.
CreateSelect(s, u, f, shortId) ==
  /\ reqs[s] = Idle
  /\ nextId + Cardinality(PendingCreates) <= MaxId
  /\ reqs' = [reqs EXCEPT ![s] =
                [pc |-> "create_insert", u |-> u, f |-> f,
                 shortId |-> shortId,
                 slugExists |-> SlugExists(snippets, slugify(f.title))]]
  /\ UNCHANGED <<snippets, users, nextId, now, resp, lastQuery,
               taxonomy, sessions>>

\* create after its await: the slug is settled and the INSERT runs.
CreateInsert(s) ==
  /\ reqs[s].pc = "create_insert"
  /\ LET q == reqs[s]
         slug == CreateSlug(q.f.title, q.slugExists, now)
         r == InsertRow(snippets,
                        NewRow(nextId, q.f, slug, q.shortId, q.u, now))
     IN /\ snippets' = r.table
        /\ nextId' = IF r.err = NoError THEN nextId + 1 ELSE nextId
        /\ resp' = Response("create", nextId, q.f.title, NoRow, slug, r)
  /\ reqs' = [reqs EXCEPT ![s] = Idle]
  /\ UNCHANGED <<users, now, lastQuery, taxonomy, sessions>>

\* update up to its first await: findById has returned.  With an unchanged
\* title the UPDATE is next, otherwise the SELECT of the candidate slug.
UpdateFind(s, id, u, f) ==
  /\ reqs[s] = Idle
  /\ LET found == findById(snippets, id)
     IN IF found = {}
          THEN /\ resp' = Response("update", id, f.title, NoRow, NullText,
                                   Result(snippets, NotFoundError, 0))
               /\ reqs' = reqs
          ELSE LET cur == CHOOSE row \in found : TRUE
               IN /\ reqs' = [reqs EXCEPT ![s] =
                                [pc |-> IF f.title # cur.title
                                          THEN "update_select"
                                          ELSE "update_run",
                                 id |-> id, u |-> u, f |-> f,
                                 cur |-> Seen(cur),
                                 conflictingSnippet |-> FALSE]]
                  /\ resp' = resp
  /\ UNCHANGED <<snippets, users, nextId, now, lastQuery, taxonomy, sessions>>

\* update at its second await: the SELECT of the candidate slug has returned.
UpdateSelect(s) ==
  /\ reqs[s].pc = "update_select"
  /\ reqs' = [reqs EXCEPT
                ![s].pc = "update_run",
                ![s].conflictingSnippet =
                  ConflictingSnippet(snippets, slugify(reqs[s].f.title),
                                     reqs[s].id)]
  /\ UNCHANGED <<snippets, users, nextId, now, resp, lastQuery,
               taxonomy, sessions>>

\* update to its end: the slug is settled and the UPDATE runs.
UpdateRun(s) ==
  /\ reqs[s].pc = "update_run"
  /\ LET q == reqs[s]
         finalSlug == UpdateSlug(q.cur, q.f.title, q.conflictingSnippet, now)
         r == UpdateRow(snippets, q.id, Actor(q.u), q.f, finalSlug)
     IN /\ snippets' = r.table
        /\ resp' = Response("update", q.id, q.f.title, q.cur, finalSlug, r)
  /\ reqs' = [reqs EXCEPT ![s] = Idle]
  /\ UNCHANGED <<users, nextId, now, lastQuery, taxonomy, sessions>>

\* Interleaving: one author's concurrent requests; remove is one statement.
RaceForms == {FormA, FormC}
NextRace ==
  \/ /\ nextId + Cardinality(PendingCreates) <= MaxRaced
     /\ \E s \in Slots, f \in RaceForms :
          \E k \in ShortIdDraws(snippets) : CreateSelect(s, 2, f, k)
  \/ \E s \in Slots : CreateInsert(s)
  \/ \E s \in Slots, id \in 1..MaxRaced, f \in RaceForms :
       UpdateFind(s, id, 2, f)
  \/ \E s \in Slots : UpdateSelect(s)
  \/ \E s \in Slots : UpdateRun(s)
  \/ \E id \in 1..MaxRaced : Remove(id, 2)
  \/ TickMs
SpecRace == Init /\ [][NextRace]_vars

\* uid.rnd() while creates are in flight: a token stored, one drawn by a
\* create still in flight, or the first that is neither.
RaceShortIdDraws ==
  LET used == UsedShortIds(snippets)
                \cup {reqs[s].shortId : s \in PendingCreates}
      fresh == CHOOSE i \in 1..(Cardinality(used) + 1) :
                 /\ ShortId(i) \notin used
                 /\ \A j \in 1..(i - 1) : ShortId(j) \in used
  IN used \cup {ShortId(fresh)}

\* Interleaving of one author's create calls alone, up to MaxId rows.
NextCreateRace ==
  \/ \E s \in Slots, f \in RaceForms :
       \E k \in RaceShortIdDraws : CreateSelect(s, 2, f, k)
  \/ \E s \in Slots : CreateInsert(s)
  \/ TickMs
SpecCreateRace == Init /\ [][NextCreateRace]_vars

(***************************************************************************)
(* Public facet queries.                                                   *)
(***************************************************************************)
\* FROM snippets s JOIN users u ON s.user_id = u.id: the joined pairs.
JoinUsers(S) ==
  {p \in (DOMAIN S) \X (DOMAIN users) : S[p[1]].user_id = p[2]}

\* FROM snippets s LEFT JOIN users u ON s.user_id = u.id: a snippet without
\* a user row is kept, joined to NULL.  (The category and language joins of
\* BASE_SNIPPET_QUERY only add projected columns.)
LeftJoinUsers(S) ==
  JoinUsers(S) \cup
    {p \in (DOMAIN S) \X {NullId} :
       \A u \in DOMAIN users : S[p[1]].user_id # u}

\* The filter without u.is_approved = 1.
PublicFilterNoApproval(S, p) == S[p[1]].is_private = 0

\* The filter without s.is_private = 0.
PublicFilterNoPrivacy(S, p) ==
  p[2] # NullId /\ users[p[2]].is_approved = 1

\* PUBLIC_FILTER: s.is_private = 0 AND u.is_approved = 1 (NULL = 1 is not
\* true).
PUBLIC_FILTER(S, p) ==
  /\ S[p[1]].is_private = 0
  /\ p[2] # NullId
  /\ users[p[2]].is_approved = 1

\* The WHERE condition each facet appends to PUBLIC_FILTER.
FacetWhere(facet, value, S, p) ==
  LET row == S[p[1]]
  IN CASE facet = "all" -> TRUE
       [] facet = "category" ->
            row.category_id # NullId /\ row.category_id = value
       [] facet = "language" ->
            row.language_id # NullId /\ row.language_id = value
       [] facet = "author" ->
            p[2] # NullId /\ users[p[2]].username = value
       [] facet = "tag" -> Contains(row.tags, value)
       [] facet = "search" ->
            \/ Contains(row.title, value)
            \/ Contains(row.description, value)
            \/ Contains(row.code, value)

\* SELECT COUNT(s.id) ... JOIN users ... WHERE PUBLIC_FILTER <facet>:
\* countAll, countByCategory, countByLanguage, countByAuthor, countByTag,
\* countSearchResults.
Counted(facet, value) ==
  {p \in JoinUsers(snippets) :
     PUBLIC_FILTER(snippets, p) /\ FacetWhere(facet, value, snippets, p)}

Count(facet, value) == Cardinality(Counted(facet, value))

\* Ties put in the reverse of the scan (highest rowid first).
FirstByRowidDesc(S, ids) ==
  CHOOSE i \in ids :
    \A j \in ids :
      \/ S[i].created_at > S[j].created_at
      \/ (S[i].created_at = S[j].created_at /\ i >= j)

\* The row ORDER BY s.created_at DESC puts first: the newest, and among
\* equally new rows the one the table scan meets first (lowest rowid).
First(S, ids) ==
  CHOOSE i \in ids :
    \A j \in ids :
      \/ S[i].created_at > S[j].created_at
      \/ (S[i].created_at = S[j].created_at /\ i <= j)

RECURSIVE OrderByCreatedDesc(_, _)
OrderByCreatedDesc(S, ids) ==
  IF ids = {} THEN <<>>
  ELSE LET i == First(S, ids)
       IN <<i>> \o OrderByCreatedDesc(S, ids \ {i})

Min(a, b) == IF a < b THEN a ELSE b

\* OFFSET ? without LIMIT ?.
LimitOffsetNoLimit(rows, limit, offset) ==
  LET off == IF offset < 0 THEN 0 ELSE offset
  IN SubSeq(rows, off + 1, Len(rows))

\* LIMIT ? OFFSET ?: a negative OFFSET counts as zero, a negative LIMIT as
\* no limit.
LimitOffset(rows, limit, offset) ==
  LET off == IF offset < 0 THEN 0 ELSE offset
      lim == IF limit < 0 THEN Len(rows) ELSE limit
  IN SubSeq(rows, off + 1, Min(off + lim, Len(rows)))

\* const offset = (page - 1) * limit, of every page query.
Offset(page, limit) == (page - 1) * limit

\* A page query whose offset is page * limit.
PageOffByOne(facet, value, page, limit) ==
  LET offset == page * limit
      hit == {p \in LeftJoinUsers(snippets) :
                PUBLIC_FILTER(snippets, p)
                /\ FacetWhere(facet, value, snippets, p)}
  IN LimitOffset(OrderByCreatedDesc(snippets, {p[1] : p \in hit}),
                 limit, offset)

\* BASE_SNIPPET_QUERY WHERE PUBLIC_FILTER <facet> ORDER BY s.created_at DESC
\* LIMIT ? OFFSET ?: findPaginated, findPaginatedByCategory,
\* findPaginatedByLanguage, findPaginatedByAuthor, findPaginatedByTag,
\* search.  The result is the sequence of the ids of the rows returned.
Page(facet, value, page, limit) ==
  LET offset == Offset(page, limit)
      hit == {p \in LeftJoinUsers(snippets) :
                PUBLIC_FILTER(snippets, p)
                /\ FacetWhere(facet, value, snippets, p)}
  IN LimitOffset(OrderByCreatedDesc(snippets, {p[1] : p \in hit}),
                 limit, offset)

\* userService.approveUser(id, isApproved) of the admin's users page.
ApproveUser(id, isApproved) ==
  /\ users' = [users EXCEPT ![id].is_approved = isApproved]
  /\ resp' = Response("approve", id, NullText, NoRow, NullText,
                      Result(snippets, NoError, 1))
  /\ UNCHANGED <<snippets, nextId, now, reqs, lastQuery, taxonomy, sessions>>

\* The page numbers a visitor asks for (?page=): below, at and above 1.
Pages == (0 - 1)..MaxPage
Sizes == {1, 2}

\* parseInt(req.query.page, 10) || 1: zero (like a missing or non-numeric
\* parameter) becomes 1, any other integer is passed on as it is.
PageParam(requested) == IF requested = 0 THEN 1 ELSE requested

\* A public listing (renderIndexPage, renderCategoryPage, ...) requested for
\* every page number of Pages while the tables stay as they are: the count,
\* and for each request the offset the service computes and the page it
\* returns.
Browse(facet, value, size) ==
  /\ lastQuery' =
       [facet |-> facet, value |-> value, size |-> size,
        count |-> Count(facet, value),
        offsets |-> [n \in Pages |-> Offset(PageParam(n), size)],
        pages |-> [n \in Pages |-> Page(facet, value, PageParam(n), size)]]
  /\ UNCHANGED <<snippets, users, nextId, now, reqs, resp, taxonomy, sessions>>

\* The listing has been rendered and is gone.
Forget ==
  /\ lastQuery # NoQuery
  /\ lastQuery' = NoQuery
  /\ UNCHANGED <<snippets, users, nextId, now, reqs, resp, taxonomy, sessions>>

\* FormA made private: it matches every facet value that FormA matches.
FormP == [FormA EXCEPT !.is_private = 1]

\* The facet values requested.
Facets ==
  {<<"all", NullId>>, <<"category", 1>>, <<"language", 1>>,
   <<"author", <<"b">> >>, <<"tag", <<"B">> >>, <<"search", <<"a", "b">> >>}

\* Most snippets stored while the listings are browsed.
MaxListed == 2

QueryAuthors == {2, 3}
\* The author whose approval the admin grants and revokes.
Moderated == 3
QueryForms == {FormA, FormB, FormP}

\* Reading: two authors publish, the admin removes, approves and
\* revokes, seconds pass, and visitors browse the listings.
NextQuery ==
  \/ /\ lastQuery = NoQuery
     /\ Cardinality(DOMAIN snippets) < MaxListed
     /\ Creates(QueryAuthors, QueryForms)
  \/ /\ lastQuery = NoQuery
     /\ Removes({1})
  \/ /\ lastQuery = NoQuery
     /\ \E v \in {0, 1} : ApproveUser(Moderated, v)
  \/ /\ lastQuery = NoQuery
     /\ TickSec
  \/ \E fv \in Facets, size \in Sizes : Browse(fv[1], fv[2], size)
  \/ Forget
SpecQuery == Init /\ [][NextQuery]_vars

(***************************************************************************)
(* The tag index of the sidebar.                                           *)
(***************************************************************************)
RECURSIVE Split(_)
\* String.prototype.split(","): the pieces between the commas, in order.
Split(text) ==
  IF \A k \in 1..Len(text) : text[k] # ","
    THEN <<text>>
    ELSE LET k == CHOOSE m \in 1..Len(text) :
                    text[m] = "," /\ \A n \in 1..(m - 1) : text[n] # ","
         IN <<SubSeq(text, 1, k - 1)>>
            \o Split(SubSeq(text, k + 1, Len(text)))

\* The characters of the model in the order of their UTF-16 code units.
CodeUnits ==
  <<" ", "!", ",", "-", "0", "1", "2", "3", "4", "5", "6", "7", "8", "9",
    "A", "B", "C", "D", "E", "F", "G", "H", "I", "J", "K", "L", "M", "N",
    "O", "P", "Q", "R", "S", "T", "U", "V", "W", "X", "Y", "Z", "_", "a",
    "b", "c", "d", "e", "f", "g", "h", "i", "j", "k", "l", "m", "n", "o",
    "p", "q", "r", "s", "t", "u", "v", "w", "x", "y", "z">>

CodeUnit(c) == CHOOSE k \in 1..Len(CodeUnits) : CodeUnits[k] = c

RECURSIVE TextLess(_, _)
\* a < b as Array.prototype.sort compares strings by default.
TextLess(a, b) ==
  IF b = <<>> THEN FALSE
  ELSE IF a = <<>> THEN TRUE
  ELSE IF Head(a) # Head(b) THEN CodeUnit(Head(a)) < CodeUnit(Head(b))
  ELSE TextLess(Tail(a), Tail(b))

RECURSIVE SortDescending(_)
\* The keys sorted from the greatest to the least.
SortDescending(keys) ==
  IF keys = {} THEN <<>>
  ELSE LET top == CHOOSE a \in keys : \A b \in keys \ {a} : TextLess(b, a)
       IN <<top>> \o SortDescending(keys \ {top})

RECURSIVE Sort(_)
\* Object.keys(tagCounts).sort()
Sort(keys) ==
  IF keys = {} THEN <<>>
  ELSE LET least == CHOOSE a \in keys : \A b \in keys \ {a} : TextLess(a, b)
       IN <<least>> \o Sort(keys \ {least})

\* The functions every object literal inherits from Object.prototype.
ObjectPrototypeFunctions ==
  {<<"c", "o", "n", "s", "t", "r", "u", "c", "t", "o", "r">>,
   <<"t", "o", "S", "t", "r", "i", "n", "g">>,
   <<"v", "a", "l", "u", "e", "O", "f">>,
   <<"h", "a", "s", "O", "w", "n", "P", "r", "o", "p", "e", "r", "t", "y">>,
   <<"i", "s", "P", "r", "o", "t", "o", "t", "y", "p", "e", "O", "f">>,
   <<"p", "r", "o", "p", "e", "r", "t", "y", "I", "s", "E", "n", "u", "m",
     "e", "r", "a", "b", "l", "e">>,
   <<"t", "o", "L", "o", "c", "a", "l", "e", "S", "t", "r", "i", "n", "g">>,
   <<"_", "_", "d", "e", "f", "i", "n", "e", "G", "e", "t", "t", "e", "r",
     "_", "_">>,
   <<"_", "_", "d", "e", "f", "i", "n", "e", "S", "e", "t", "t", "e", "r",
     "_", "_">>,
   <<"_", "_", "l", "o", "o", "k", "u", "p", "G", "e", "t", "t", "e", "r",
     "_", "_">>,
   <<"_", "_", "l", "o", "o", "k", "u", "p", "S", "e", "t", "t", "e", "r",
     "_", "_">>}

\* The accessor of Object.prototype: reading it gives the prototype, and
\* assigning it a string does nothing.
ProtoAccessor == <<"_", "_", "p", "r", "o", "t", "o", "_", "_">>

\* A value of tagCounts: the number n, or (text) the text of an object
\* followed by n times the digit 1.
Value(n, text) == [n |-> n, text |-> text]

\* (tagCounts[trimmedTag] || 0) + 1: one more than the own number; for a
\* text, and for what {} inherits under that name, the text with "1"
\* appended.
Incremented(tagCounts, trimmedTag) ==
  IF trimmedTag \in DOMAIN tagCounts
    THEN Value(tagCounts[trimmedTag].n + 1, tagCounts[trimmedTag].text)
    ELSE IF trimmedTag \in ObjectPrototypeFunctions \cup {ProtoAccessor}
      THEN Value(1, TRUE)
      ELSE Value(1, FALSE)

\* The forEach body without its `if (trimmedTag)`.
TallyUnchecked(tagCounts, tag) ==
  LET trimmedTag == Trim(tag)
      v == Incremented(tagCounts, trimmedTag)
  IN IF trimmedTag # ProtoAccessor
       THEN [t \in DOMAIN tagCounts \cup {trimmedTag} |->
               IF t = trimmedTag THEN v ELSE tagCounts[t]]
       ELSE tagCounts

\* findAllTags, the body of the inner forEach: one piece of a tags string is
\* trimmed and, when not empty, tallied.
Tally(tagCounts, tag) ==
  LET trimmedTag == Trim(tag)
      v == Incremented(tagCounts, trimmedTag)
  IN IF trimmedTag # <<>> /\ trimmedTag # ProtoAccessor
       THEN [t \in DOMAIN tagCounts \cup {trimmedTag} |->
               IF t = trimmedTag THEN v ELSE tagCounts[t]]
       ELSE tagCounts

RECURSIVE TallyAll(_, _)
\* The pieces tallied one after the other.
TallyAll(tagCounts, tags) ==
  IF tags = <<>> THEN tagCounts
  ELSE TallyAll(Tally(tagCounts, Head(tags)), Tail(tags))

\* SELECT tags ... JOIN users ... WHERE PUBLIC_FILTER s.tags IS NOT NULL AND
\* s.tags != '': the snippets whose tags are read.
TaggedRows ==
  {p[1] : p \in {q \in JoinUsers(snippets) :
                   /\ PUBLIC_FILTER(snippets, q)
                   /\ snippets[q[1]].tags # NullText
                   /\ snippets[q[1]].tags # <<>>}}

RECURSIVE Pieces(_)
\* row.tags.split(",") of each row read, rows in scan order.
Pieces(ids) ==
  IF ids = {} THEN <<>>
  ELSE LET i == CHOOSE j \in ids : \A k \in ids : j <= k
       IN Split(snippets[i].tags) \o Pieces(ids \ {i})

\* snippetService.findAllTags(): the sequence of { name, count }.
findAllTags ==
  LET tagCounts == TallyAll(<<>>, Pieces(TaggedRows))
      sortedTags == Sort(DOMAIN tagCounts)
  IN [k \in 1..Len(sortedTags) |->
        [name |-> sortedTags[k], count |-> tagCounts[sortedTags[k]]]]

\* populateSidebarData: the tag index of the page being rendered.
ListTags ==
  /\ lastQuery' = [facet |-> "tags", index |-> findAllTags]
  /\ UNCHANGED <<snippets, users, nextId, now, reqs, resp, taxonomy, sessions>>

\* Tags strings: repeated and padded tags, blank pieces only, the empty
\* string, no tags, a private snippet's tag, a name every object inherits.
TagForms ==
  {[FormA EXCEPT !.tags = <<"b", ",", " ", "a", " ", ",", "b">>],
   [FormA EXCEPT !.tags = <<"b">>],
   [FormA EXCEPT !.tags = <<" ", ",", ",">>],
   [FormA EXCEPT !.tags = <<>>],
   [FormA EXCEPT !.tags = NullText],
   [FormA EXCEPT !.tags = <<"B", ",", "c">>, !.is_private = 1],
   [FormA EXCEPT !.tags = 
     <<"c", "o", "n", "s", "t", "r", "u", "c", "t", "o", "r">>]}

\* The tag index: one author publishes, the admin removes, approves and
\* revokes, and pages with the sidebar are rendered.
NextTags ==
  \/ /\ lastQuery = NoQuery
     /\ Cardinality(DOMAIN snippets) < MaxListed
     /\ Creates({Moderated}, TagForms)
  \/ /\ lastQuery = NoQuery
     /\ Removes({1})
  \/ /\ lastQuery = NoQuery
     /\ \E v \in {0, 1} : ApproveUser(Moderated, v)
  \/ ListTags
  \/ Forget
SpecTags == Init /\ [][NextTags]_vars

(***************************************************************************)
(* The page of one snippet.                                                *)
(***************************************************************************)
\* The lookup with PUBLIC_FILTER in its WHERE.
findByIdentifierPublic(identifier) ==
  LET hit == {p[1] : p \in {q \in LeftJoinUsers(snippets) :
                              PUBLIC_FILTER(snippets, q)}}
      bySlug == {i \in hit : snippets[i].slug = identifier}
      byShortId == {i \in hit : snippets[i].short_id = identifier}
  IN IF bySlug # {} THEN bySlug ELSE byShortId

\* BASE_SNIPPET_QUERY WHERE s.slug = ? OR s.short_id = ?, first row
\* (query.get): the ids of the row returned, none or one.  The row found
\* through the index of slug comes before the one found through the index
\* of short_id.
findByIdentifierWithDetail(identifier) ==
  LET bySlug == {i \in DOMAIN snippets : snippets[i].slug = identifier}
      byShortId == {i \in DOMAIN snippets : snippets[i].short_id = identifier}
  IN IF bySlug # {} THEN bySlug ELSE byShortId

\* SELECT ... FROM snippets s JOIN users u ... WHERE PUBLIC_FILTER 1 ORDER BY
\* s.created_at DESC LIMIT ?: the ids of the rows returned.
findRecent(limit) ==
  LET hit == {p \in JoinUsers(snippets) : PUBLIC_FILTER(snippets, p)}
  IN LimitOffset(OrderByCreatedDesc(snippets, {p[1] : p \in hit}), limit, 0)

\* GET /:identifier and GET /download/:identifier: populateSidebarData, then
\* renderSnippetPage or downloadSnippet, which answer 404 when no row is found.
ViewSnippet(identifier) ==
  /\ lastQuery' =
       [facet |-> "detail", identifier |-> identifier,
        snippet |-> findByIdentifierWithDetail(identifier),
        recent |-> findRecent(5),
        index |-> findAllTags,
        counts |-> [fv \in Facets |-> Count(fv[1], fv[2])],
        pages |-> [fv \in Facets |-> Page(fv[1], fv[2], 1, MaxId)]]
  /\ UNCHANGED <<snippets, users, nextId, now, reqs, resp, taxonomy, sessions>>

\* A public snippet whose title is shaped like a short id.
FormK == [FormA EXCEPT !.title = <<"k", "1">>]

\* The identifiers requested: those stored, and one that is not.
Identifiers ==
  {snippets[i].slug : i \in DOMAIN snippets}
    \cup {snippets[i].short_id : i \in DOMAIN snippets}
    \cup {<<"b">>}

DetailForms == {FormA, FormP, FormK}

\* Snippet pages: one author publishes, the admin approves and revokes, and
\* visitors follow links.
NextDetail ==
  \/ /\ lastQuery = NoQuery
     /\ Cardinality(DOMAIN snippets) < MaxListed
     /\ Creates({Moderated}, DetailForms)
  \/ /\ lastQuery = NoQuery
     /\ \E v \in {0, 1} : ApproveUser(Moderated, v)
  \/ \E identifier \in Identifiers : ViewSnippet(identifier)
  \/ Forget
SpecDetail == Init /\ [][NextDetail]_vars

(***************************************************************************)
(* Categories and languages.                                               *)
(***************************************************************************)
\* Categories the admin creates in one run.
MaxCategories == 2

\* PRAGMA foreign_keys of the connection: never set, and off by default in
\* SQLite, so the FOREIGN KEY clauses of the schema are not enforced.
foreign_keys == FALSE

\* categories / languages: name TEXT NOT NULL UNIQUE, slug TEXT NOT NULL
\* UNIQUE.
TaxonUniqueOk(table, row) ==
  \A i \in DOMAIN table :
    table[i].name # row.name /\ table[i].slug # row.slug

\* createCategory: the name trimmed; categoryService.create when it is not
\* empty: INSERT INTO categories (name, slug) VALUES (?, slugify(name)).
CreateCategory(name) ==
  /\ sqlite_sequence.categories < MaxCategories
  /\ LET trimmed == Trim(name)
         id == sqlite_sequence.categories + 1
         row == [id |-> id, name |-> trimmed, slug |-> slugify(trimmed)]
     IN IF trimmed # <<>> /\ TaxonUniqueOk(categories, row)
          THEN /\ categories' =
                    [i \in DOMAIN categories \cup {id} |->
                       IF i = id THEN row ELSE categories[i]]
               /\ sqlite_sequence' =
                    [sqlite_sequence EXCEPT !.categories = id]
          ELSE UNCHANGED <<categories, sqlite_sequence, sessions>>
  /\ UNCHANGED <<snippets, users, nextId, now, reqs, resp, lastQuery,
                 languages, sessions>>

\* ON DELETE SET NULL of the column, as the engine applies it when foreign
\* keys are enforced.
OnDeleteSetNull(S, column, id) ==
  IF foreign_keys
    THEN [i \in DOMAIN S |->
            IF S[i][column] = id THEN [S[i] EXCEPT ![column] = NullId]
            ELSE S[i]]
    ELSE S

\* DELETE FROM <table> WHERE id = ?
DeleteTaxon(table, id) == [i \in DOMAIN table \ {id} |-> table[i]]

\* deleteCategory: categoryService.remove(id)
RemoveCategory(id) ==
  /\ categories' = DeleteTaxon(categories, id)
  /\ snippets' =
       IF id \in DOMAIN categories
         THEN OnDeleteSetNull(snippets, "category_id", id)
         ELSE snippets
  /\ UNCHANGED <<users, nextId, now, reqs, resp, lastQuery, languages,
                 sqlite_sequence, sessions>>

\* deleteLanguage: languageService.remove(id)
RemoveLanguage(id) ==
  /\ languages' = DeleteTaxon(languages, id)
  /\ snippets' =
       IF id \in DOMAIN languages
         THEN OnDeleteSetNull(snippets, "language_id", id)
         ELSE snippets
  /\ UNCHANGED <<users, nextId, now, reqs, resp, lastQuery, categories,
                 sqlite_sequence, sessions>>

\* SELECT t.id, ..., COUNT(s.id) as count FROM <table> t LEFT JOIN snippets s
\* ON t.id = s.<column> GROUP BY t.id HAVING COUNT(s.id) > 0 ORDER BY t.name:
\* findAllWithCount of category.service.js and of language.service.js.
findAllWithCount(table, column) ==
  LET count == [t \in DOMAIN table |->
                  Cardinality({i \in DOMAIN snippets :
                                 snippets[i][column] = t})]
      having == {t \in DOMAIN table : count[t] > 0}
      names == Sort({table[t].name : t \in having})
  IN [k \in 1..Len(names) |->
        LET t == CHOOSE u \in having : table[u].name = names[k]
        IN [id |-> t, name |-> names[k], count |-> count[t]]]

\* populateSidebarData: the category and language lists of the page being
\* rendered.
ListSidebar ==
  /\ lastQuery' =
       [facet |-> "sidebar",
        allCategories |-> findAllWithCount(categories, "category_id"),
        allLanguages |-> findAllWithCount(languages, "language_id")]
  /\ UNCHANGED <<snippets, users, nextId, now, reqs, resp, taxonomy, sessions>>

\* Snippets of both visibilities in either language and category.
FormL == [FormA EXCEPT !.category_id = 2, !.language_id = 2]
TaxonomyForms == {FormA, FormP, FormL}

CategoryNames == {<<"A">>, <<" ", "b">>, <<" ">>}

\* The taxonomy: one author publishes, the admin approves, creates and
\* deletes categories and languages, and pages with the sidebar are
\* rendered.
NextTaxonomy ==
  \/ /\ lastQuery = NoQuery
     /\ Cardinality(DOMAIN snippets) < MaxListed
     /\ Creates({Moderated}, TaxonomyForms)
  \/ /\ lastQuery = NoQuery
     /\ \E v \in {0, 1} : ApproveUser(Moderated, v)
  \/ /\ lastQuery = NoQuery
     /\ \E name \in CategoryNames : CreateCategory(name)
  \/ /\ lastQuery = NoQuery
     /\ \E id \in 1..MaxCategories : RemoveCategory(id)
  \/ /\ lastQuery = NoQuery
     /\ \E id \in DOMAIN SeededLanguages : RemoveLanguage(id)
  \/ ListSidebar
  \/ Forget
SpecTaxonomy == Init /\ [][NextTaxonomy]_vars

(***************************************************************************)
(* Listings of the dashboard and of the API.                               *)
(***************************************************************************)
\* SELECT ... FROM snippets s ... ORDER BY s.created_at DESC: the ids of
\* the rows returned.
findAllForAdmin == OrderByCreatedDesc(snippets, DOMAIN snippets)

\* The listing of a user with PUBLIC_FILTER in its WHERE.
findAllForUserPublic(userId) ==
  OrderByCreatedDesc(snippets,
    {p[1] : p \in {q \in JoinUsers(snippets) :
                     /\ PUBLIC_FILTER(snippets, q)
                     /\ snippets[q[1]].user_id = userId}})

\* SELECT ... FROM snippets s ... WHERE s.user_id = ? ORDER BY s.created_at
\* DESC
findAllForUser(userId) ==
  OrderByCreatedDesc(snippets,
    {i \in DOMAIN snippets : snippets[i].user_id = userId})

\* SELECT COUNT(*) ... JOIN users u ... WHERE PUBLIC_FILTER s.user_id = ?
countForUser(userId) ==
  Cardinality({p \in JoinUsers(snippets) :
                 /\ PUBLIC_FILTER(snippets, p)
                 /\ snippets[p[1]].user_id = userId})

\* SELECT ... LEFT JOIN users u ... WHERE PUBLIC_FILTER s.user_id = ? ORDER
\* BY s.created_at DESC LIMIT ? OFFSET ?
findPaginatedForUser(userId, page, limit) ==
  LET offset == Offset(page, limit)
      hit == {p \in LeftJoinUsers(snippets) :
                /\ PUBLIC_FILTER(snippets, p)
                /\ snippets[p[1]].user_id = userId}
  IN LimitOffset(OrderByCreatedDesc(snippets, {p[1] : p \in hit}),
                 limit, offset)

\* getAllSnippets of the session user u: every snippet for an admin, the
\* user's own otherwise.
GetAllSnippets(u) ==
  /\ lastQuery' =
       [facet |-> "dashboard", user |-> u,
        snippets |-> IF Actor(u).is_admin
                       THEN findAllForAdmin
                       ELSE findAllForUser(u)]
  /\ UNCHANGED <<snippets, users, nextId, now, reqs, resp, taxonomy, sessions>>

\* GET /api/v1/snippets of the user u the API key authenticates (approved):
\* listUserSnippets with ?page= and ?limit=.
ListUserSnippets(u, limit) ==
  /\ users[u].is_approved = 1
  /\ lastQuery' =
       [facet |-> "api", user |-> u, limit |-> limit,
        totalItems |-> countForUser(u),
        pages |-> [n \in Pages |->
                     findPaginatedForUser(u, PageParam(n), limit)]]
  /\ UNCHANGED <<snippets, users, nextId, now, reqs, resp, taxonomy, sessions>>

OwnerForms == {FormA, FormP}

\* Owner listings: two authors publish, the admin approves and revokes,
\* seconds pass, and users list their snippets in the dashboard and through
\* the API.
NextOwner ==
  \/ /\ lastQuery = NoQuery
     /\ Cardinality(DOMAIN snippets) < MaxListed
     /\ Creates(QueryAuthors, OwnerForms)
  \/ /\ lastQuery = NoQuery
     /\ \E v \in {0, 1} : ApproveUser(Moderated, v)
  \/ /\ lastQuery = NoQuery
     /\ TickSec
  \/ \E u \in UserIds : GetAllSnippets(u)
  \/ \E u \in UserIds, limit \in Sizes : ListUserSnippets(u, limit)
  \/ Forget
SpecOwner == Init /\ [][NextOwner]_vars

(***************************************************************************)
(* The tag page.                                                           *)
(***************************************************************************)
\* Tags strings: two tags, one longer tag, none.
FormAB == [FormA EXCEPT !.tags = <<"a", "b">>]
FormN == [FormA EXCEPT !.tags = NullText]
TagFacetForms == {FormA, FormP, FormAB, FormN}

\* req.params.tag: a tag in another case, a piece that spans no token, the
\* start of a longer tag, one with LIKE's one-character wildcard, and one
\* that no snippet carries.
TagValues ==
  {<<"B">>, <<"a", ",">>, <<"a">>, <<"_", "b">>, <<"b", "a">>}

\* Tag pages: one author publishes, the admin approves and revokes, and
\* visitors open /tag/:tag.
NextTagFacet ==
  \/ /\ lastQuery = NoQuery
     /\ Cardinality(DOMAIN snippets) < MaxListed
     /\ Creates({Moderated}, TagFacetForms)
  \/ /\ lastQuery = NoQuery
     /\ \E v \in {0, 1} : ApproveUser(Moderated, v)
  \/ \E tag \in TagValues, size \in Sizes : Browse("tag", tag, size)
  \/ Forget
SpecTagFacet == Init /\ [][NextTagFacet]_vars

(***************************************************************************)
(* Accounts: sessions of the dashboard and keys of the API.                *)
(***************************************************************************)

\* A users table whose api_key column carries no UNIQUE index.
ApiKeyUniqueOkNoConstraint(U, id, apiKey) == TRUE

\* api_key TEXT UNIQUE: no other users row holds the key.
ApiKeyUniqueOk(U, id, apiKey) ==
  \A v \in DOMAIN U \ {id} : U[v].api_key # apiKey

\* The keys crypto.randomBytes(16) can come up with: one a row holds already
\* (keys outside the table are interchangeable, the first free one stands
\* for them).
ApiKeyDraws ==
  {users[v].api_key : v \in UserIds} \cup
  {ApiKey(CHOOSE n \in 1..(Cardinality(UserIds) + 1) :
     /\ \A v \in UserIds : users[v].api_key # ApiKey(n)
     /\ \A m \in 1..(n - 1) : \E v \in UserIds : users[v].api_key = ApiKey(m))}

\* The bearer tokens a client may send.
Tokens == {ApiKey(n) : n \in 1..(Cardinality(UserIds) + 1)}

\* userService.findByApiKey: the rows WHERE api_key = ? AND is_approved = 1.
findByApiKey(U, apiKey) ==
  {v \in DOMAIN U : U[v].api_key = apiKey /\ U[v].is_approved = 1}

\* userService.regenerateApiKey: query.run of the UPDATE of one users row.
regenerateApiKey(U, userId, newApiKey) ==
  IF ApiKeyUniqueOk(U, userId, newApiKey)
    THEN Result([U EXCEPT ![userId].api_key = newApiKey], NoError, 1)
    ELSE Result(U, ConstraintError, 0)

\* POST /login with the right password: an unapproved account gets the 403
\* page, any other gets a session holding its id.
HandleLogin(u) ==
  /\ sessions' = IF users[u].is_approved = 1 THEN sessions \cup {u}
                 ELSE sessions
  /\ resp' = [op |-> "login", id |-> u,
              status |-> IF users[u].is_approved = 1 THEN 302 ELSE 403]
  /\ UNCHANGED <<snippets, users, nextId, now, reqs, lastQuery, taxonomy>>

\* GET /logout: the session is destroyed.
HandleLogout(u) ==
  /\ u \in sessions
  /\ sessions' = sessions \ {u}
  /\ resp' = [op |-> "logout", id |-> u, status |-> 302]
  /\ UNCHANGED <<snippets, users, nextId, now, reqs, lastQuery, taxonomy>>

\* POST /profile/regenerate-api-key of the session of u, drawing newApiKey.
HandleRegenerateApiKey(u, newApiKey) ==
  /\ u \in sessions
  /\ LET r == regenerateApiKey(users, u, newApiKey)
     IN /\ users' = r.table
        /\ resp' = [op |-> "regenerate", id |-> u,
                    previous |-> users[u].api_key, apiKey |-> newApiKey,
                    err |-> r.err, changes |-> r.changes]
  /\ UNCHANGED <<snippets, nextId, now, reqs, lastQuery, taxonomy, sessions>>

\* isApiAuthenticated on a request carrying Authorization: Bearer token:
\* req.user is the row found, or the request ends with 401.
ApiAuthenticate(token) ==
  /\ lastQuery' =
       [facet |-> "bearer", token |-> token,
        user |-> IF findByApiKey(users, token) = {} THEN NullId
                 ELSE CHOOSE v \in findByApiKey(users, token) :
                        \A w \in findByApiKey(users, token) : v <= w]
  /\ UNCHANGED <<snippets, users, nextId, now, reqs, resp, taxonomy,
                 sessions>>

NextApiKey ==
  \/ \E u \in QueryAuthors : HandleLogin(u)
  \/ \E u \in QueryAuthors : HandleLogout(u)
  \/ \E u \in QueryAuthors : \E k \in ApiKeyDraws :
       HandleRegenerateApiKey(u, k)
  \/ \E t \in Tokens : ApiAuthenticate(t)
  \/ \E v \in {0, 1} : ApproveUser(Moderated, v)

SpecApiKey == Init /\ [][NextApiKey]_vars

(***************************************************************************)
(* Writing through a session or with an API key.                           *)
(***************************************************************************)

\* isAuthenticated: the request carries a session that holds a user.
isAuthenticated(u) == u \in sessions

\* POST /admin/snippets of the session of u.
SessionCreateSnippet(u, f, shortId) ==
  /\ isAuthenticated(u)
  /\ Create(u, f, shortId)

\* POST /admin/snippets/:id of the session of u.
SessionUpdateSnippet(id, u, f) ==
  /\ isAuthenticated(u)
  /\ Update(id, u, f)

\* POST /admin/snippets/delete/:id of the session of u.
SessionDeleteSnippet(id, u) ==
  /\ isAuthenticated(u)
  /\ Remove(id, u)

\* POST /api/snippets with Authorization: Bearer token: isApiAuthenticated,
\* then apiController.createSnippet, which answers 400 to a title or code
\* that is undefined, null or the empty string (!title || !code) and passes
\* no is_private on.
ApiCreateSnippet(token, f, shortId) ==
  LET found == findByApiKey(users, token)
      Falsy(text) == text = NullText \/ text = <<>>
      refused(message) ==
        /\ resp' = Response("api", NullId, f.title, NoRow, NullText,
                            Result(snippets, message, 0))
        /\ UNCHANGED <<snippets, users, nextId, now, reqs, lastQuery,
                       taxonomy, sessions>>
  IN IF found = {} THEN refused("Not authorized, token is invalid.")
     ELSE IF Falsy(f.title) \/ Falsy(f.code)
       THEN refused("Title and code are required.")
     ELSE Create(CHOOSE v \in found : \A w \in found : v <= w,
                 [f EXCEPT !.is_private = 0], shortId)

\* One account: it logs in and out, writes through its session and with its
\* API key or with a key of nobody, and the admin revokes and grants its
\* approval.
NextSession ==
  \/ HandleLogin(Moderated)
  \/ HandleLogout(Moderated)
  \/ \E v \in {0, 1} : ApproveUser(Moderated, v)
  \/ \E f \in IdentForms : \E k \in ShortIdDraws(snippets) :
       SessionCreateSnippet(Moderated, f, k)
  \/ \E id \in Ids, f \in IdentForms :
       SessionUpdateSnippet(id, Moderated, f)
  \/ \E id \in Ids : SessionDeleteSnippet(id, Moderated)
  \/ \E t \in {users[Moderated].api_key, ApiKey(Cardinality(UserIds) + 1)} :
       \E f \in IdentForms : \E k \in ShortIdDraws(snippets) :
         ApiCreateSnippet(t, f, k)

SpecSession == Init /\ [][NextSession]_vars

(***************************************************************************)
(* Titles without a letter or digit.                                       *)
(***************************************************************************)
\* A title with letters, one of punctuation only, one of whitespace only.
PunctuationForms ==
  {FormA, [FormA EXCEPT !.title = <<"!">>], [FormA EXCEPT !.title = <<" ">>]}

\* One author creates and retitles snippets through the dashboard, whose
\* controller passes req.body on as it is, while the milliseconds pass.
NextPunctuation ==
  \/ Creates(Authors, PunctuationForms)
  \/ Updates(Authors, PunctuationForms)
  \/ TickMs
SpecPunctuation == Init /\ [][NextPunctuation]_vars

(***************************************************************************)
(* Uniqueness under interleaving.                                          *)
(***************************************************************************)
\* C1: whatever the interleaving of create, update and remove requests, and
\* whichever of them fail, no two stored snippets share a slug and no two
\* share a short_id.
C1_SlugAndShortIdUnique ==
  \A i \in DOMAIN snippets : \A j \in DOMAIN snippets :
    i # j => /\ snippets[i].slug # snippets[j].slug
             /\ snippets[i].short_id # snippets[j].short_id

\* A create found its slug free, another request stored that slug before the
\* INSERT ran, and the INSERT was rejected.
C1_Witness ==
  /\ resp.op = "create"
  /\ resp.err = ConstraintError
  /\ resp.slug = slugify(resp.title)
  /\ SlugExists(snippets, resp.slug)

(***************************************************************************)
(* Ownership guard.                                                        *)
(***************************************************************************)
\* The acting user may mutate the row: an admin, or the row's owner.
Allowed(id, u) == users[u].is_admin = 1 \/ snippets[id].user_id = u

\* The step is the call update(id, Actor(u), f), create(f by u, drawing k),
\* remove(id, Actor(u)): the handler's action, read off the response first.
UpdateStep(id, u, f) ==
  /\ now' = now
  /\ resp'.op = "update" /\ resp'.id = id /\ resp'.title = f.title
  /\ Update(id, u, f)

CreateStep(u, f, k) ==
  /\ now' = now
  /\ resp'.op = "create" /\ resp'.title = f.title
  /\ resp'.err = NoError =>
       /\ nextId \in DOMAIN snippets'
       /\ snippets'[nextId].short_id = k
       /\ snippets'[nextId].code = f.code
  /\ Create(u, f, k)

RemoveStep(id, u) ==
  /\ now' = now
  /\ resp'.op = "remove" /\ resp'.id = id
  /\ Remove(id, u)

\* The step is a call of the service operation `op`.
Called(op) == now' = now /\ resp'.op = op

\* Every row other than `id` is stored after the step exactly as before.
OthersKept(id) ==
  \A j \in DOMAIN snippets \ {id} :
    j \in DOMAIN snippets' /\ snippets'[j] = snippets[j]

\* C4: when a non-admin calls update or remove on an existing snippet of
\* another user, the call reports zero rows affected and the whole table,
\* that snippet included, is stored unchanged.
C4_DeniedMutationIsNoOp ==
  [][(Called("update") \/ Called("remove")) =>
       \A id \in Ids, u \in UserIds :
         (id \in DOMAIN snippets /\ ~Allowed(id, u)) =>
           /\ RemoveStep(id, u) =>
                resp'.changes = 0 /\ resp'.err = NoError /\ snippets' = snippets
           /\ \A f \in AuthForms :
                UpdateStep(id, u, f) =>
                  resp'.changes = 0 /\ resp'.err = NoError
                  /\ snippets' = snippets]_vars

\* A non-admin's update of another user's existing snippet has returned.
C4_Witness ==
  /\ resp.op = "update"
  /\ resp.err = NoError
  /\ resp.changes = 0
  /\ resp.id \in DOMAIN snippets
  /\ snippets[resp.id].title # resp.title

\* C5 as stated: an update or remove on an existing snippet affects storage
\* if and only if the actor is an admin or the owner, and then exactly that
\* row.
C5_AsStated ==
  [][(Called("update") \/ Called("remove")) =>
       \A id \in Ids, u \in UserIds :
         id \in DOMAIN snippets =>
           /\ RemoveStep(id, u) =>
                (resp'.changes = 1 <=> Allowed(id, u)) /\ OthersKept(id)
           /\ \A f \in AuthForms :
                UpdateStep(id, u, f) =>
                  (resp'.changes = 1 <=> Allowed(id, u)) /\ OthersKept(id)]_vars

\* C5 amended: remove deletes the row if and only if the actor is an admin
\* or the owner; update rewrites the row if and only if the actor is an
\* admin or the owner and the UPDATE is not rejected by a constraint; a
\* denied or rejected call changes nothing, and no call touches another row.
C5_GuardDecidesMutation ==
  [][(Called("update") \/ Called("remove")) =>
       \A id \in Ids, u \in UserIds :
         id \in DOMAIN snippets =>
           /\ RemoveStep(id, u) =>
                /\ resp'.err = NoError
                /\ resp'.changes = 1 <=> Allowed(id, u)
                /\ Allowed(id, u) => id \notin DOMAIN snippets'
                /\ ~Allowed(id, u) => snippets' = snippets
                /\ OthersKept(id)
           /\ \A f \in AuthForms :
                UpdateStep(id, u, f) =>
                  /\ resp'.changes = 1 <=>
                       (Allowed(id, u) /\ resp'.err = NoError)
                  /\ resp'.err # NoError =>
                       Allowed(id, u) /\ resp'.err = ConstraintError
                  /\ resp'.changes = 1 =>
                       snippets'[id] = UpdatedRow(snippets[id], f, resp'.slug)
                  /\ resp'.changes = 0 => snippets' = snippets
                  /\ OthersKept(id)]_vars

\* An admin's or owner's update has rewritten a row while another row exists.
C5_Witness ==
  /\ resp.op = "update"
  /\ resp.changes = 1
  /\ resp.title # resp.cur.title
  /\ \E j \in DOMAIN snippets : j # resp.id

(***************************************************************************)
(* Slug allocation.                                                        *)
(***************************************************************************)
\* The previous call was a successful create of `title` that stored exactly
\* slugify(title): the first of two creates of that title.
FirstCreateDone(title) ==
  /\ resp.op = "create"
  /\ resp.err = NoError
  /\ resp.title = title
  /\ resp.slug = slugify(title)

\* C6 as stated: after a first create of title T stored slugify(T), a second
\* create of T succeeds and stores slugify(T)-<timestamp>.
C6_AsStated ==
  [][Called("create") =>
       \A f \in SlugForms : \A k \in ShortIdDraws(snippets) :
         (FirstCreateDone(f.title) /\ CreateStep(2, f, k)) =>
           /\ resp'.err = NoError
           /\ resp'.slug = Suffixed(slugify(f.title), now)]_vars

\* C6 amended: a create of T on a table without slug slugify(T) stores
\* exactly slugify(T) when it succeeds; the create of T that follows it
\* computes slugify(T)-<Date.now()>, a different slug, and stores it unless
\* the INSERT is rejected because that slug or the drawn short_id is already
\* in the table, in which case the table is unchanged.
C6_SecondCreateIsSuffixed ==
  [][Called("create") =>
       \A f \in SlugForms : \A k \in ShortIdDraws(snippets) :
         CreateStep(2, f, k) =>
           /\ (~SlugExists(snippets, slugify(f.title)) /\ resp'.err = NoError)
                => snippets'[nextId].slug = slugify(f.title)
           /\ FirstCreateDone(f.title) =>
                /\ resp'.slug = Suffixed(slugify(f.title), now)
                /\ resp'.slug # resp.slug
                /\ resp'.err = NoError <=>
                     /\ ~SlugExists(snippets, resp'.slug)
                     /\ k \notin UsedShortIds(snippets)
                /\ resp'.err = NoError =>
                     /\ snippets'[nextId].slug = resp'.slug
                     /\ snippets'[resp.id].slug = slugify(f.title)
                /\ resp'.err # NoError => snippets' = snippets]_vars

\* Two snippets of one title are stored, the first under slugify(title) and
\* the one just created under the suffixed slug.
C6_Witness ==
  /\ resp.op = "create"
  /\ resp.err = NoError
  /\ resp.id \in DOMAIN snippets
  /\ snippets[resp.id].slug # slugify(resp.title)
  /\ \E i \in DOMAIN snippets :
       /\ i # resp.id
       /\ snippets[i].title = resp.title
       /\ snippets[i].slug = slugify(resp.title)
       /\ snippets[resp.id].slug = snippets[i].slug \o <<"-">> \o Digits(now)

\* C7: an update whose title equals the stored title leaves the snippet's
\* slug unchanged, whatever else is submitted and whatever slugs the other
\* snippets hold; a slug changes across an update only if the title changed.
C7_SameTitleKeepsSlug ==
  [][Called("update") =>
       \A id \in Ids, f \in SlugForms :
         (id \in DOMAIN snippets /\ UpdateStep(id, 2, f)) =>
           /\ id \in DOMAIN snippets'
           /\ f.title = snippets[id].title =>
                snippets'[id].slug = snippets[id].slug
           /\ snippets'[id].slug # snippets[id].slug =>
                snippets'[id].title # snippets[id].title]_vars

\* An update with the stored title has rewritten the other fields of a
\* snippet whose slug is not what slugify gives for its title.
C7_Witness ==
  /\ resp.op = "update"
  /\ resp.changes = 1
  /\ resp.title = resp.cur.title
  /\ resp.cur.slug # slugify(resp.title)
  /\ snippets[resp.id].slug = resp.cur.slug
  /\ ~SlugExists(snippets, slugify(resp.title))

\* C8: no step changes the short_id, creation timestamp, id or owner of a
\* stored snippet, and an update keeps every snippet stored.
C8_IdentityColumnsImmutable ==
  [][/\ \A i \in DOMAIN snippets \cap DOMAIN snippets' :
          /\ snippets'[i].short_id = snippets[i].short_id
          /\ snippets'[i].created_at = snippets[i].created_at
          /\ snippets'[i].id = snippets[i].id
          /\ snippets'[i].user_id = snippets[i].user_id
     /\ Called("update") =>
          \A id \in Ids, u \in UserIds, f \in IdentForms :
            UpdateStep(id, u, f) => DOMAIN snippets' = DOMAIN snippets]_vars

\* An update has rewritten the title and fields of a snippet in a later
\* second than the one it was created in.
C8_Witness ==
  /\ resp.op = "update"
  /\ resp.changes = 1
  /\ resp.title # resp.cur.title
  /\ snippets[resp.id].title = resp.title
  /\ snippets[resp.id].user_id = 2
  /\ snippets[resp.id].created_at < now \div MsPerSec

(***************************************************************************)
(* Public listings.                                                        *)
(***************************************************************************)
\* The snippet is public and owned by an approved user.
Visible(i) ==
  /\ snippets[i].is_private = 0
  /\ \E u \in DOMAIN users :
       u = snippets[i].user_id /\ users[u].is_approved = 1

Ceil(a, b) == (a + b - 1) \div b

\* The number the last listing reported is the count of the current tables.
Listed == lastQuery # NoQuery

RECURSIVE Concat(_, _)
\* Pages 1..n of the last listing, one after the other.
Concat(pages, n) ==
  IF n = 0 THEN <<>> ELSE Concat(pages, n - 1) \o pages[n]

\* C2: for each facet and facet value, in every reachable state, no snippet
\* that count counts is private or owned by an unapproved user, so the number
\* a listing reports never exceeds the number of visible snippets.
C2_CountSkipsHidden ==
  /\ \A fv \in Facets : \A p \in Counted(fv[1], fv[2]) :
       /\ snippets[p[1]].is_private = 0
       /\ users[snippets[p[1]].user_id].is_approved = 1
  /\ Listed =>
       lastQuery.count <= Cardinality({i \in DOMAIN snippets : Visible(i)})

\* A listing reported fewer snippets than satisfy its facet condition,
\* because one of them is private or its owner is not approved.
C2_Witness ==
  /\ Listed
  /\ lastQuery.count = 1
  /\ \E p \in JoinUsers(snippets) :
       /\ FacetWhere(lastQuery.facet, lastQuery.value, snippets, p)
       /\ users[p[2]].is_approved = 0
  /\ \E p \in JoinUsers(snippets) :
       /\ FacetWhere(lastQuery.facet, lastQuery.value, snippets, p)
       /\ users[p[2]].is_approved = 1
       /\ snippets[p[1]].is_private = 0

\* C3: for each facet, page number and page size, every snippet a page
\* returns is public and owned by an approved user; a private snippet whose
\* description contains the search term is in no search page and is not
\* counted by the search count.
C3_PagesShowOnlyVisible ==
  Listed =>
    /\ \A n \in Pages : \A k \in 1..Len(lastQuery.pages[n]) :
         /\ lastQuery.pages[n][k] \in DOMAIN snippets
         /\ Visible(lastQuery.pages[n][k])
    /\ lastQuery.facet = "search" =>
         \A i \in DOMAIN snippets :
           (snippets[i].is_private = 1
            /\ Contains(snippets[i].description, lastQuery.value)) =>
             /\ \A n \in Pages : \A k \in 1..Len(lastQuery.pages[n]) :
                  lastQuery.pages[n][k] # i
             /\ \A p \in Counted("search", lastQuery.value) : p[1] # i
             /\ lastQuery.count < Cardinality(DOMAIN snippets)

\* A search listed a snippet while a private snippet whose description
\* contains the term is stored.
C3_Witness ==
  /\ Listed
  /\ lastQuery.facet = "search"
  /\ lastQuery.count = 1
  /\ lastQuery.pages[1] # <<>>
  /\ \E i \in DOMAIN snippets :
       /\ snippets[i].is_private = 1
       /\ users[snippets[i].user_id].is_approved = 1
       /\ Contains(snippets[i].description, lastQuery.value)

\* C9: for every facet, value, page number n and page size, a page holds at
\* most size items, and every page n beyond ceil(count / size) is the empty
\* sequence.
C9_PageSizeAndTail ==
  Listed =>
    \A n \in Pages :
      /\ Len(lastQuery.pages[n]) <= lastQuery.size
      /\ n > Ceil(lastQuery.count, lastQuery.size) =>
           lastQuery.pages[n] = <<>>

\* Two snippets were listed one per page, and the page after them is empty.
C9_Witness ==
  /\ Listed
  /\ lastQuery.size = 1
  /\ lastQuery.count = 2
  /\ Len(lastQuery.pages[2]) = 1
  /\ lastQuery.pages[MaxPage] = <<>>

\* C10: for every facet and value, on unchanged tables, pages
\* 1..ceil(count / size) put end to end hold exactly count snippets, each
\* snippet that count counts exactly once.
C10_PagesCoverCount ==
  Listed =>
    LET last == Ceil(lastQuery.count, lastQuery.size)
        all == Concat(lastQuery.pages, last)
    IN /\ last <= MaxPage
       /\ Len(all) = lastQuery.count
       /\ \A k \in 1..Len(all) : \A m \in 1..Len(all) :
            all[k] = all[m] => k = m
       /\ {all[k] : k \in 1..Len(all)} =
            {p[1] : p \in Counted(lastQuery.facet, lastQuery.value)}

\* Two snippets created in the same second were counted and listed on two
\* pages of one item each.
C10_Witness ==
  /\ Listed
  /\ lastQuery.size = 1
  /\ lastQuery.count = 2
  /\ lastQuery.pages[1] # lastQuery.pages[2]
  /\ snippets[lastQuery.pages[1][1]].created_at =
       snippets[lastQuery.pages[2][1]].created_at

C12_AsStated ==
  Listed =>
    \A n \in Pages :
      n < 1 => /\ lastQuery.pages[n] = lastQuery.pages[1]
               /\ lastQuery.offsets[n] >= 0

\* The sidebar of the last page rendered holds the tag index of the tables.
TagsListed == lastQuery # NoQuery /\ lastQuery.facet = "tags"

\* The pieces of snippet i's tags string, or none when it has no tags.
PiecesOf(i) ==
  IF snippets[i].tags = NullText THEN <<>> ELSE Split(snippets[i].tags)

\* How many pieces of snippet i's tags string are the tag `name` once trimmed.
Occurrences(i, name) ==
  Cardinality({k \in 1..Len(PiecesOf(i)) : Trim(PiecesOf(i)[k]) = name})

RECURSIVE OccurrencesIn(_, _)
\* The occurrences of `name` in the snippets ids, added up.
OccurrencesIn(ids, name) ==
  IF ids = {} THEN 0
  ELSE LET i == CHOOSE j \in ids : TRUE
       IN Occurrences(i, name) + OccurrencesIn(ids \ {i}, name)

\* C13: in every reachable state, the tag index returned by findAllTags
\* holds no tag that occurs only in private snippets or in snippets of
\* unapproved authors, and no entry whose name is empty or whitespace-only.
C13_TagsOfVisibleOnly ==
  TagsListed =>
    \A k \in 1..Len(lastQuery.index) :
      LET name == lastQuery.index[k].name
      IN /\ \E c \in 1..Len(name) : name[c] \notin SpaceChars
         /\ \E i \in DOMAIN snippets : Visible(i) /\ Occurrences(i, name) > 0

\* A hidden snippet carries tags, a visible one carries blank pieces only,
\* and the index listed is empty.
C13_Witness ==
  /\ TagsListed
  /\ lastQuery.index = <<>>
  /\ \E i \in DOMAIN snippets :
       ~Visible(i) /\ Occurrences(i, <<"c">>) > 0
  /\ \E i \in DOMAIN snippets :
       Visible(i) /\ Len(PiecesOf(i)) > 1 /\ Occurrences(i, <<>>) > 0

\* C14: the count reported for a tag by findAllTags is the number of
\* trimmed, non-empty comma-separated pieces equal to that tag over all
\* visible snippets, repeated occurrences in one tags string counted
\* separately.
C14_AsStated ==
  TagsListed =>
    \A k \in 1..Len(lastQuery.index) :
      /\ lastQuery.index[k].count.text = FALSE
      /\ lastQuery.index[k].count.n =
           OccurrencesIn({i \in DOMAIN snippets : Visible(i)},
                         lastQuery.index[k].name)

\* C15: the sequence returned by findAllTags is sorted in strictly
\* increasing lexicographic order of tag name, and every tag name is in
\* exactly one entry.
C15_SortedByName ==
  TagsListed =>
    /\ \A k \in 1..(Len(lastQuery.index) - 1) :
         TextLess(lastQuery.index[k].name, lastQuery.index[k + 1].name)
    /\ \A j, k \in 1..Len(lastQuery.index) :
         lastQuery.index[j].name = lastQuery.index[k].name => j = k

\* A tags string naming b before a was indexed as a, then b.
C15_Witness ==
  /\ TagsListed
  /\ Len(lastQuery.index) = 2
  /\ lastQuery.index[1].name = <<"a">>
  /\ lastQuery.index[2].name = <<"b">>
  /\ \E i \in DOMAIN snippets :
       Visible(i) /\ Trim(PiecesOf(i)[1]) = <<"b">>

\* Slots s and t both ran the SELECT of the same derived slug, found no row,
\* and neither has run its INSERT.
Race(s, t) ==
  /\ s # t
  /\ reqs[s].pc = "create_insert"
  /\ reqs[t].pc = "create_insert"
  /\ slugify(reqs[s].f.title) = slugify(reqs[t].f.title)
  /\ ~reqs[s].slugExists
  /\ ~reqs[t].slugExists

\* The create of slot s runs its INSERT in this step.
InsertStep(s) == reqs[s].pc = "create_insert" /\ reqs'[s] = Idle

\* What the INSERT of the create in flight q would return on table S.
WouldInsert(S, id, q) ==
  InsertRow(S, NewRow(id, q.f, CreateSlug(q.f.title, q.slugExists, now),
                      q.shortId, q.u, now))

SlugsDistinct(S) ==
  \A i, j \in DOMAIN S : S[i].slug = S[j].slug => i = j

\* C16 as stated: of two creates that both checked the same derived slug
\* before either inserted, exactly one insert is stored and the other is
\* rejected.
C16_AsStated ==
  [][\A s, t \in Slots :
       Race(s, t) /\ InsertStep(s) =>
         \/ /\ resp'.err = NoError
            /\ WouldInsert(snippets', nextId', reqs[t]).err = ConstraintError
         \/ /\ resp'.err = ConstraintError
            /\ WouldInsert(snippets', nextId', reqs[t]).err = NoError]_vars

\* C16: of two creates that both checked the same derived slug before
\* either inserted, the first INSERT is stored or rejected with the
\* constraint error and the table unchanged (a short_id already stored);
\* once one is stored, the INSERT of the other is rejected with the
\* constraint error handed to its caller and stores nothing; the slugs of
\* the table stay distinct.
C16_RaceStoresAtMostOne ==
  [][\A s \in Slots :
       InsertStep(s) /\ ~reqs[s].slugExists =>
         /\ resp'.op = "create"
         /\ resp'.title = reqs[s].f.title
         /\ SlugsDistinct(snippets')
         /\ \/ /\ resp'.err = NoError
               /\ resp'.changes = 1
               /\ nextId \in DOMAIN snippets'
               /\ snippets'[nextId].slug = slugify(reqs[s].f.title)
               /\ \A t \in Slots :
                    Race(s, t) =>
                      WouldInsert(snippets', nextId', reqs[t]).err
                        = ConstraintError
            \/ /\ resp'.err = ConstraintError
               /\ resp'.changes = 0
               /\ snippets' = snippets
         /\ SlugExists(snippets, slugify(reqs[s].f.title)) =>
              resp'.err = ConstraintError]_vars

\* The only row stored carries the slug and the title of a create that was
\* rejected although its SELECT had found no such slug.
C16_Witness ==
  /\ \A s \in Slots : reqs[s] = Idle
  /\ resp.op = "create"
  /\ resp.err = ConstraintError
  /\ resp.slug = slugify(resp.title)
  /\ DOMAIN snippets = {1}
  /\ snippets[1].slug = resp.slug
  /\ snippets[1].title = resp.title

\* A snippet page was requested and answered from the current tables.
DetailViewed == lastQuery # NoQuery /\ lastQuery.facet = "detail"

Elements(seq) == {seq[k] : k \in 1..Len(seq)}

\* Snippet i is in none of the public listings of the last request: the six
\* facet pages and counts, the recent list; and the tag index holds only
\* tags of visible snippets.
Unlisted(i) ==
  /\ i \notin Elements(lastQuery.recent)
  /\ \A fv \in Facets :
       /\ i \notin Elements(lastQuery.pages[fv])
       /\ lastQuery.counts[fv] =
            Cardinality({j \in DOMAIN snippets \ {i} :
                           \E p \in Counted(fv[1], fv[2]) : p[1] = j})
  /\ \A k \in 1..Len(lastQuery.index) :
       \E j \in DOMAIN snippets \ {i} :
         Visible(j) /\ Occurrences(j, lastQuery.index[k].name) > 0

\* C17 as stated: a private snippet is returned by the lookup with its slug
\* or with its short_id, and is absent from every public listing.
C17_AsStated ==
  DetailViewed =>
    \A i \in DOMAIN snippets :
      snippets[i].is_private = 1 =>
        /\ lastQuery.identifier \in {snippets[i].slug, snippets[i].short_id}
             => lastQuery.snippet = {i}
        /\ Unlisted(i)

\* C18 as stated: the lookup never returns a snippet that is private or
\* whose owner is unapproved.
C18_AsStated ==
  DetailViewed => \A i \in lastQuery.snippet : Visible(i)

\* C18: the lookup applies no visibility filter: it returns one snippet
\* whose slug or short_id is the identifier whenever such a snippet is
\* stored, private or not, owner approved or not, and none otherwise; the
\* filter is enforced on the listings: a snippet that is not visible is in
\* no facet page or count, not in the recent list, and adds no tag.
C18_FilterOnListingsOnly ==
  DetailViewed =>
    LET matching == {i \in DOMAIN snippets :
                       lastQuery.identifier
                         \in {snippets[i].slug, snippets[i].short_id}}
    IN /\ lastQuery.snippet \subseteq matching
       /\ matching # {} => Cardinality(lastQuery.snippet) = 1
       /\ \A i \in DOMAIN snippets : ~Visible(i) => Unlisted(i)

\* The page of a private snippet was served while the listings held another.
C18_Witness ==
  /\ DetailViewed
  /\ \E i \in lastQuery.snippet : snippets[i].is_private = 1
  /\ lastQuery.recent # <<>>

\* The sidebar of the last page rendered lists the current tables.
SidebarListed == lastQuery # NoQuery /\ lastQuery.facet = "sidebar"

\* The public snippets that reference language id.
PublicIn(id) ==
  {i \in DOMAIN snippets :
     snippets[i].language_id = id /\ snippets[i].is_private = 0}

\* C19: the language list of the sidebar holds a language only if at least
\* one public snippet references it, and the count of a language includes
\* no private snippet.
C19_AsStated ==
  SidebarListed =>
    \A k \in 1..Len(lastQuery.allLanguages) :
      LET entry == lastQuery.allLanguages[k]
      IN /\ PublicIn(entry.id) # {}
         /\ entry.count = Cardinality(PublicIn(entry.id))

\* A category or a language is deleted in this step.
TaxonRemoved(table, id) == id \in DOMAIN table /\ id \notin DOMAIN table'

\* C20: when a category or a language is removed, every snippet that
\* referenced it has that foreign key null afterwards, no snippet is
\* deleted, and afterwards every non-null category_id / language_id is the
\* id of a stored category / language.
C20_AsStated ==
  [][/\ \A id \in DOMAIN categories :
          TaxonRemoved(categories, id) =>
            /\ DOMAIN snippets' = DOMAIN snippets
            /\ \A i \in DOMAIN snippets :
                 snippets[i].category_id = id =>
                   snippets'[i].category_id = NullId
     /\ \A id \in DOMAIN languages :
          TaxonRemoved(languages, id) =>
            /\ DOMAIN snippets' = DOMAIN snippets
            /\ \A i \in DOMAIN snippets :
                 snippets[i].language_id = id =>
                   snippets'[i].language_id = NullId]_vars

\* The last request listed snippets in the dashboard / through the API.
DashboardListed == lastQuery # NoQuery /\ lastQuery.facet = "dashboard"
ApiListed == lastQuery # NoQuery /\ lastQuery.facet = "api"

OwnedBy(u) == {i \in DOMAIN snippets : snippets[i].user_id = u}

\* C21 as stated: the dashboard listing of a user and the API listing of the
\* authenticated user cover exactly the snippets with user_id = u, private
\* ones included; the admin listing holds every snippet.
C21_AsStated ==
  /\ DashboardListed =>
       Elements(lastQuery.snippets) =
         IF users[lastQuery.user].is_admin = 1
           THEN DOMAIN snippets
           ELSE OwnedBy(lastQuery.user)
  /\ ApiListed =>
       /\ lastQuery.totalItems = Cardinality(OwnedBy(lastQuery.user))
       /\ Elements(Concat(lastQuery.pages, MaxPage)) = OwnedBy(lastQuery.user)

\* C21: the dashboard listing of a user holds exactly the snippets with
\* user_id = u, private ones included, each once; the admin listing holds
\* every snippet; the API listing of the authenticated user counts and pages
\* exactly the snippets of u that are not private.
C21_OwnerScopedListings ==
  /\ DashboardListed =>
       /\ Elements(lastQuery.snippets) =
            IF users[lastQuery.user].is_admin = 1
              THEN DOMAIN snippets
              ELSE OwnedBy(lastQuery.user)
       /\ Len(lastQuery.snippets) = Cardinality(Elements(lastQuery.snippets))
  /\ ApiListed =>
       LET public == {i \in OwnedBy(lastQuery.user) :
                        snippets[i].is_private = 0}
       IN /\ lastQuery.totalItems = Cardinality(public)
          /\ Elements(Concat(lastQuery.pages, MaxPage)) = public

\* A user's dashboard lists a private snippet of theirs while another user
\* owns a snippet too.
C21_Witness ==
  /\ DashboardListed
  /\ users[lastQuery.user].is_admin = 0
  /\ \E i \in Elements(lastQuery.snippets) : snippets[i].is_private = 1
  /\ \E i \in DOMAIN snippets : snippets[i].user_id # lastQuery.user

\* The mutation of snippet id by user u is refused or finds nothing: u is no
\* admin, and the id is not stored or belongs to another user.
Fruitless(id, u) ==
  /\ users[u].is_admin = 0
  /\ id \in DOMAIN snippets => snippets[id].user_id # u

\* C22 as stated: for a non-admin, update or remove of another user's
\* snippet and of an id that does not exist both complete without error
\* and report zero rows affected.
C22_AsStated ==
  [][(Called("update") \/ Called("remove")) =>
       \A id \in Ids, u \in UserIds :
         Fruitless(id, u) =>
           /\ RemoveStep(id, u) =>
                resp'.err = NoError /\ resp'.changes = 0
           /\ \A f \in AuthForms :
                UpdateStep(id, u, f) =>
                  resp'.err = NoError /\ resp'.changes = 0]_vars

\* C22: for a non-admin, remove of another user's snippet and of an id that
\* does not exist both complete without error, report zero rows affected
\* and change nothing; update of another user's snippet does the same,
\* while update of an id that does not exist is rejected with the not-found
\* error and changes nothing.
C22_DeniedLooksMissingForRemove ==
  [][(Called("update") \/ Called("remove")) =>
       \A id \in Ids, u \in UserIds :
         Fruitless(id, u) =>
           /\ RemoveStep(id, u) =>
                /\ resp'.err = NoError
                /\ resp'.changes = 0
                /\ snippets' = snippets
           /\ \A f \in AuthForms :
                UpdateStep(id, u, f) =>
                  /\ resp'.changes = 0
                  /\ snippets' = snippets
                  /\ resp'.err = IF id \in DOMAIN snippets
                                   THEN NoError
                                   ELSE NotFoundError]_vars

\* An update of an id that is not stored was rejected while a snippet is
\* stored.
C22_Witness ==
  /\ resp.op = "update"
  /\ resp.err = NotFoundError
  /\ resp.id \notin DOMAIN snippets
  /\ DOMAIN snippets # {}

\* The last request was a tag page.
TagPageListed == Listed /\ lastQuery.facet = "tag"

\* The text t occurs in the text s, character for character.
Occurs(t, s) ==
  /\ s # NullText
  /\ \E k \in 0..(Len(s) - Len(t)) :
       \A j \in 1..Len(t) : s[k + j] = t[j]

\* The text t occurs in the text s when letters are compared without case
\* and a _ of t stands for any one character.
OccursFolded(t, s) ==
  /\ s # NullText
  /\ \E k \in 0..(Len(s) - Len(t)) :
       \A j \in 1..Len(t) :
         t[j] = "_" \/ Lower(s[k + j]) = Lower(t[j])

\* C23 as stated: a visible snippet is counted and paged for the tag value t
\* if and only if t occurs anywhere inside its stored tags string.
C23_AsStated ==
  TagPageListed =>
    LET hit == {i \in DOMAIN snippets :
                  Visible(i) /\ Occurs(lastQuery.value, snippets[i].tags)}
    IN /\ lastQuery.count = Cardinality(hit)
       /\ Elements(Concat(lastQuery.pages, MaxPage)) = hit

\* C23: the tag facet matches on the raw tags string, not by token: a
\* visible snippet is counted and paged for the tag value t (without %) if
\* and only if t occurs anywhere inside its stored tags string when ASCII
\* letters are compared without case and each _ of t stands for any one
\* character.
C23_TagMatchesBySubstring ==
  TagPageListed =>
    LET hit == {i \in DOMAIN snippets :
                  /\ Visible(i)
                  /\ OccursFolded(lastQuery.value, snippets[i].tags)}
    IN /\ lastQuery.count = Cardinality(hit)
       /\ Elements(Concat(lastQuery.pages, MaxPage)) = hit

\* The tag page of "a" lists a snippet tagged only "ab".
C23_Witness ==
  /\ TagPageListed
  /\ lastQuery.value = <<"a">>
  /\ \E i \in Elements(lastQuery.pages[1]) :
       snippets[i].tags = <<"a", "b">>

(***************************************************************************)
(* API keys.                                                               *)
(***************************************************************************)

\* A regeneration by the session of u that the table accepted.
Regenerated == Called("regenerate") /\ resp'.err = NoError

\* In this state a bearer token stands for at most one user, an approved
\* one.
KeysAuthenticateOneApproved ==
  \A t \in Tokens :
    /\ Cardinality({v \in UserIds : users[v].api_key = t}) <= 1
    /\ \A v \in findByApiKey(users, t) : users[v].is_approved = 1

\* A request the middleware lets through runs as the approved holder of its
\* token, the only holder.
BearerIsHolder ==
  (/\ users' = users
   /\ resp' = resp
   /\ sessions' = sessions
   /\ lastQuery'.facet = "bearer"
   /\ lastQuery'.user # NullId) =>
    /\ users[lastQuery'.user].is_approved = 1
    /\ \A v \in UserIds :
         users[v].api_key = lastQuery'.token <=> v = lastQuery'.user

\* The key u holds after the call is the generated one and stands for u
\* alone while u is approved.
NewKeyAuthenticates ==
  /\ users'[resp'.id].api_key = resp'.apiKey
  /\ users'[resp'.id].is_approved = 1 =>
       findByApiKey(users', resp'.apiKey) = {resp'.id}

\* C24 as stated: after regenerateApiKey(u) completes the previous key of u
\* authenticates no request and the new key authenticates as u while u is
\* approved; always, a key authenticates at most one user, an approved one.
C24_AsStated ==
  /\ []KeysAuthenticateOneApproved
  /\ [][BearerIsHolder]_vars
  /\ [][Regenerated =>
          /\ findByApiKey(users', resp'.previous) = {}
          /\ NewKeyAuthenticates]_vars

\* C24 amended: after regenerateApiKey(u) completes the generated key is
\* the key of u and authenticates as u while u is approved, and the previous
\* key authenticates no request unless the generator returned that very key
\* again; a generated key another user holds is rejected and leaves every
\* key as it was; always, a key authenticates at most one user, an approved
\* one.
C24_RegenerateReplacesKey ==
  /\ []KeysAuthenticateOneApproved
  /\ [][BearerIsHolder]_vars
  /\ [][Called("regenerate") =>
          /\ resp'.err = NoError =>
               /\ NewKeyAuthenticates
               /\ resp'.apiKey # resp'.previous =>
                    findByApiKey(users', resp'.previous) = {}
          /\ resp'.err # NoError =>
               /\ users' = users
               /\ \E v \in UserIds \ {resp'.id} :
                    users[v].api_key = resp'.apiKey]_vars

\* An approved user holds a freshly generated key that differs from the key
\* held before the call.
C24_Witness ==
  /\ resp.op = "regenerate"
  /\ resp.err = NoError
  /\ resp.apiKey # resp.previous
  /\ users[resp.id].api_key = resp.apiKey
  /\ users[resp.id].is_approved = 1

(***************************************************************************)
(* Slug disambiguation is tried once.                                      *)
(***************************************************************************)

\* The slug create derives from the title and its timestamp-suffixed form
\* are both stored already.
BothTakenForCreate(title) ==
  /\ SlugExists(snippets, slugify(title))
  /\ SlugExists(snippets, Suffixed(slugify(title), now))

\* The update changes the title of snippet id, and the derived slug and its
\* timestamp-suffixed form both belong to other snippets.
BothTakenForUpdate(id, title) ==
  /\ id \in DOMAIN snippets
  /\ title # snippets[id].title
  /\ ConflictingSnippet(snippets, slugify(title), id)
  /\ ConflictingSnippet(snippets, Suffixed(slugify(title), now), id)

\* The call was rejected by the storage layer and stored nothing.
Conflict == resp'.err = ConstraintError /\ snippets' = snippets

\* C25 as stated: when the derived slug and the timestamp-suffixed slug are
\* both taken, create, or a title-changing update, fails with the storage
\* conflict error and leaves the table exactly as it was.
C25_AsStated ==
  [][(Called("create") \/ Called("update")) =>
       /\ \A f \in AuthForms : \A k \in ShortIdDraws(snippets) :
            (/\ resp'.title = f.title
             /\ BothTakenForCreate(f.title)
             /\ CreateStep(2, f, k)) => Conflict
       /\ \A id \in Ids, u \in UserIds, f \in AuthForms :
            (/\ resp'.id = id /\ resp'.title = f.title
             /\ BothTakenForUpdate(id, f.title)
             /\ UpdateStep(id, u, f)) =>
              Conflict]_vars

\* C25 amended: the suffix is computed once, from Date.now(), and never
\* retried.  When the derived slug and the suffixed slug are both taken,
\* create fails with the storage conflict error, and so does a
\* title-changing update by the owner or an admin; such an update by anyone
\* else matches no row and reports zero changes without an error.  In each
\* case the table is left exactly as it was.
C25_SuffixTriedOnce ==
  [][(Called("create") \/ Called("update")) =>
       /\ \A f \in AuthForms : \A k \in ShortIdDraws(snippets) :
            (/\ resp'.title = f.title
             /\ BothTakenForCreate(f.title)
             /\ CreateStep(2, f, k)) =>
              /\ resp'.slug = Suffixed(slugify(f.title), now)
              /\ Conflict
       /\ \A id \in Ids, u \in UserIds, f \in AuthForms :
            (/\ resp'.id = id /\ resp'.title = f.title
             /\ BothTakenForUpdate(id, f.title)
             /\ UpdateStep(id, u, f)) =>
              /\ resp'.slug = Suffixed(slugify(f.title), now)
              /\ snippets' = snippets
              /\ Allowed(id, u) => resp'.err = ConstraintError
              /\ ~Allowed(id, u) =>
                   resp'.err = NoError /\ resp'.changes = 0]_vars

\* A title-changing update was rejected: the slug it computed is the
\* suffixed one, another snippet holds it, and a third holds the derived
\* slug.
C25_Witness ==
  /\ resp.op = "update"
  /\ resp.err = ConstraintError
  /\ resp.id \in DOMAIN snippets
  /\ resp.title # snippets[resp.id].title
  /\ resp.slug = Suffixed(slugify(resp.title), now)
  /\ ConflictingSnippet(snippets, slugify(resp.title), resp.id)
  /\ ConflictingSnippet(snippets, resp.slug, resp.id)

(***************************************************************************)
(* Approval decides visibility when a page is read.                        *)
(***************************************************************************)

\* The listing without the snippets of user u, order kept.
WithoutOwner(listing, u) ==
  SelectSeq(listing, LAMBDA i : snippets[i].user_id # u)

\* The steps of approveUser that leave user u unapproved, or approved.
Revoked(u) ==
  Called("approve") /\ resp'.id = u /\ users'[u].is_approved = 0
Approved(u) ==
  Called("approve") /\ resp'.id = u /\ users'[u].is_approved = 1

\* The tag index read in this state tallies the tags of the snippets that
\* are public and owned by a user approved in this state, all of them and
\* no others.
TagIndexFollowsApproval ==
  LET index == findAllTags
      visible == {i \in DOMAIN snippets : Visible(i)}
  IN /\ \A k \in 1..Len(index) :
          /\ index[k].count.n = OccurrencesIn(visible, index[k].name)
          /\ index[k].count.n > 0
     /\ \A i \in visible : \A c \in 1..Len(PiecesOf(i)) :
          Trim(PiecesOf(i)[c]) \notin {<<>>, ProtoAccessor} =>
            \E k \in 1..Len(index) : index[k].name = Trim(PiecesOf(i)[c])

\* Every listing read in the state `hidden`, where u is unapproved, is the
\* listing read in the state `shown`, where u is approved, with the snippets
\* of u taken out: the facet counts and pages and the recent list.
\* (hidden: 0 for the state before the step, 1 for the state after it.)
HidesOnly(u, hidden) ==
  LET counted(fv) == IF hidden = 1 THEN Counted(fv[1], fv[2])'
                     ELSE Counted(fv[1], fv[2])
      shownCounted(fv) == IF hidden = 1 THEN Counted(fv[1], fv[2])
                          ELSE Counted(fv[1], fv[2])'
      page(fv) == IF hidden = 1 THEN Page(fv[1], fv[2], 1, MaxId)'
                  ELSE Page(fv[1], fv[2], 1, MaxId)
      shownPage(fv) == IF hidden = 1 THEN Page(fv[1], fv[2], 1, MaxId)
                       ELSE Page(fv[1], fv[2], 1, MaxId)'
      recent == IF hidden = 1 THEN findRecent(MaxId)' ELSE findRecent(MaxId)
      shownRecent ==
        IF hidden = 1 THEN findRecent(MaxId) ELSE findRecent(MaxId)'
  IN /\ \A fv \in Facets :
          /\ counted(fv) = {p \in shownCounted(fv) : p[2] # u}
          /\ page(fv) = WithoutOwner(shownPage(fv), u)
     /\ recent = WithoutOwner(shownRecent, u)

\* C26: approveUser changes the flag of one users row and no snippet row;
\* once user u is unapproved every facet count and page and the recent list
\* are what they are with u approved less the snippets of u, the tag index
\* always tallies the snippets visible under the current flags, and
\* approving u again leads back to the very tables, hence the very results,
\* that were read before the revocation.
C26_VisibilityFollowsApproval ==
  /\ []TagIndexFollowsApproval
  /\ [][(Called("approve") /\ lastQuery' = lastQuery /\ nextId' = nextId) =>
          /\ snippets' = snippets
          /\ \A u \in QueryAuthors :
               /\ (Revoked(u) /\ users[u].is_approved = 1) =>
                    /\ HidesOnly(u, 1)
                    /\ [users' EXCEPT ![u].is_approved = 1] = users
               /\ (Approved(u) /\ users[u].is_approved = 0) =>
                    /\ HidesOnly(u, 0)
                    /\ users' = [users EXCEPT ![u].is_approved = 1]
               /\ (resp'.id = u
                   /\ users'[u].is_approved = users[u].is_approved) =>
                    users' = users]_vars

\* The moderated author has just been revoked while owning a public snippet,
\* and another author's public snippet is still listed.
C26_Witness ==
  /\ resp.op = "approve"
  /\ users[Moderated].is_approved = 0
  /\ \E i \in DOMAIN snippets :
       snippets[i].user_id = Moderated /\ snippets[i].is_private = 0
  /\ \E i \in DOMAIN snippets : snippets[i].user_id # Moderated /\ Visible(i)
  /\ Len(findAllTags) > 0
  /\ Page("all", NullId, 1, MaxId) # <<>>

(***************************************************************************)
(* Approval and the right to write.                                        *)
(***************************************************************************)

\* The step stores, rewrites or deletes a snippet.  (Every writer of this
\* specification is the moderated user: its session, or its API key.)
Mutated == snippets' # snippets

\* The step is a login answered with a session.
LoggedIn(u) == resp'.op = "login" /\ resp'.id = u /\ u \in sessions'

\* C27 as stated: a user whose is_approved flag is 0 cannot create, update
\* or delete snippets through any authenticated path: login and API-key
\* authentication are refused while the flag is 0, and once an admin has
\* revoked approval a session opened earlier can no longer mutate snippets.
C27_AsStated ==
  [][/\ (LoggedIn(Moderated) /\ Moderated \notin sessions) =>
          users[Moderated].is_approved = 1
     /\ users[Moderated].is_approved = 0 =>
          findByApiKey(users, users[Moderated].api_key) = {}
     /\ Mutated => users[Moderated].is_approved = 1]_vars

(***************************************************************************)
(* One identifier, one snippet.                                            *)
(***************************************************************************)

\* The snippets whose slug or short_id is the identifier.
Matching(identifier) ==
  {i \in DOMAIN snippets :
     snippets[i].slug = identifier \/ snippets[i].short_id = identifier}

\* C28 as stated: for every identifier at most one snippet has it as slug
\* or as short_id: no slug equals the short_id of a different snippet, and
\* the lookup of an identifier returns the one snippet that matches it.
C28_AsStated ==
  /\ \A identifier \in Identifiers : Cardinality(Matching(identifier)) <= 1
  /\ \A i, j \in DOMAIN snippets :
       i # j => snippets[i].slug # snippets[j].short_id
  /\ DetailViewed => lastQuery.snippet = Matching(lastQuery.identifier)

(***************************************************************************)
(* Slugs fit for a URL.                                                    *)
(***************************************************************************)

\* The characters of a URL-safe slug.
SlugChars == LowerChars \cup DigitChars \cup {"_", "-"}

\* C29 as stated: every stored slug is non-empty and made of lowercase
\* letters, digits, underscores and hyphens only, whatever title create or
\* update accepted, titles of punctuation or whitespace only included.
C29_AsStated ==
  \A i \in DOMAIN snippets :
    /\ snippets[i].slug # <<>>
    /\ snippets[i].slug # NullText
    /\ \A c \in 1..Len(snippets[i].slug) : snippets[i].slug[c] \in SlugChars

(***************************************************************************)
(* From the tag index to the tag page.                                     *)
(***************************************************************************)

\* C30: on any store, every tag name listed by findAllTags has
\* countByTag(name) >= 1 and, for each page size >= 1, a first page from
\* findPaginatedByTag(name, 1, size) that is not empty.
C30_ListedTagHasPage ==
  LET index == findAllTags
  IN \A k \in 1..Len(index) :
       /\ Count("tag", index[k].name) >= 1
       /\ \A size \in 1..MaxId :
            Len(Page("tag", index[k].name, 1, size)) >= 1

\* The index just listed is that of the current store and holds a tag that
\* was written with padding next to other tags, while a tag of a hidden
\* snippet is left out of it.
C30_Witness ==
  /\ TagsListed
  /\ lastQuery.index = findAllTags
  /\ \E k \in 1..Len(lastQuery.index) :
       /\ lastQuery.index[k].name = <<"a">>
       /\ \E i \in DOMAIN snippets :
            /\ Visible(i)
            /\ snippets[i].tags # lastQuery.index[k].name
            /\ Count("tag", lastQuery.index[k].name) >= 1
  /\ \E i \in DOMAIN snippets : ~Visible(i) /\ Occurrences(i, <<"c">>) > 0

====
